---- MODULE Spec2Model ----
(***************************************************************************)
(* Terrain elevation pipeline of TerrainTiles (src/unnamed/part_001):      *)
(* water-depth synthesis (applyWaterDepth), the 2x2 tile fetch of          *)
(* fetchTileAtLocation with its Promise.all join, stitching and            *)
(* processElevations.                                                      *)
(*                                                                         *)
(* Elevations are Float32 metres in the code.  The model holds an          *)
(* elevation as an integer number of 1/Scale metres (Scale = 256 is the    *)
(* resolution of the Terrarium encoding, b / 256), and a quotient stored   *)
(* into the buffer is rounded to the nearest such value, ties to even, as  *)
(* a Float32Array store rounds to the nearest representable value.         *)
(***************************************************************************)
EXTENDS Integers, FiniteSets, Sequences, TLC

\* ---------------------------------------------------------------- bounds
MaxCells == 9      \* cells of an elevation field given to applyWaterDepth
MaxPasses == 2     \* applyWaterDepth's `passes` argument
MaxStep == 2       \* applyWaterDepth's `step` argument, in half metres
MaxZoom == 2       \* zoom levels 0 .. MaxZoom
MaxTile == 2       \* side of a tile image, in pixels
MaxPixels == 2     \* pixels of an image decoded on its own
MaxSub == 3        \* createTerrainMesh's options.subdivisions
MaxMeshCells == 4  \* cells of a field given to createTerrainMesh
MaxCalls == 2      \* fetchTileAtLocation invocations made one after the other
MaxOrderCells == 4 \* fields of up to this many cells are scanned in every order
MaxRequests == 2   \* fetchTileAtLocation invocations in flight at once
MantBits == 6      \* significand width of the model's double arithmetic

\* ------------------------------------------------------ program constants
Scale == 256
smoothPasses == 10
ProcessPasses == 100   \* processElevations: applyWaterDepth(.., 100, 1)
ProcessStep == 1
TerrariumOffset == 32768

\* Input elevations cell i may hold, in 1/Scale m.  Every cell is water or
\* land; over a field the water inputs are exactly sea level (0 m) and below
\* it (-2 m), the land inputs 2.5 m and 0.75 m.
ElevChoices(i) ==
    IF i % 2 = 0 THEN {0, 5 * (Scale \div 2)}
    ELSE {-2 * Scale, 3 * (Scale \div 4)}

VARIABLES
    elevations,   \* applyWaterDepth: the buffer, index i = y*width + x
    width,
    height,
    passes,
    step,
    isWater,      \* applyWaterDepth: the Uint8Array mask, as booleans
    pass,         \* loop counter of the running phase
    wpc,          \* position in applyWaterDepth
    input,        \* history: the buffer as it was passed in
    \* fetchTileAtLocation
    zoom,         \* argument
    lonq,         \* argument lon, as (lon + 180) / 360 in 1/PosDen
    latq,         \* argument lat, as (1 - asinh(tan(latRad)) / PI) / 2 in 1/PosDen
    tileX, tileY,
    startX, startY,
    fpc,          \* position in fetchTileAtLocation
    issued,       \* loadTileElevations calls made so far
    loads,        \* the four loadTileElevations promises, in array order
    joined,       \* the Promise.all promise
    stitched,     \* the stitched buffer
    writes,       \* history: stores made into each stitched cell
    outcome,      \* what the caller's promise settled with, in order
    failLog,      \* history: array slots in the order their loads failed
    tileDim,      \* side of the images the tile store serves
    store,        \* the tile store: image size per array slot, patterns served
    calls,        \* history: fetchTileAtLocation invocations made so far
    urlLog,       \* history: every image request made, <<call, z, x, y>>
    \* loadTileElevations on its own
    imageData,    \* what getImageData returned: width, height, RGBA bytes
    decoded,      \* what loadTileElevations returns for it
    \* Game.createTerrainMesh
    terrain,      \* argument: elevations, width, height of a TerrainResult
    subdivisions, \* argument options.subdivisions
    vertexElevation, \* `elevation` of each vertex, by vertexIndex
    \* latLonToTile and tileBounds
    point,        \* arguments lat, lon, zoom
    tileXY,       \* what latLonToTile returned: x, y
    bounds,       \* what tileBounds returned for that tile
    \* downloadHeightmap
    outputData,   \* outputData.data: the RGBA bytes of the grayscale image
    \* requests in flight at once
    cpc,          \* where each invocation of fetchTileAtLocation is
    cst,          \* its four loadTileElevations calls, in array order
    cbuf,         \* the Float32Array each of them returned
    cstitched,    \* its `stitched` Float32Array
    owner,        \* the heap: the invocation that allocated each buffer
    access,       \* history: <<buffer, invocation>> of every read and write
    running,      \* the invocation whose synchronous code is on the stack
    loadOrder,    \* history: the slots in the order their images loaded
    \* index.ts
    dom,          \* which of #renderCanvas and #loading the page has
    bpc,          \* where the DOMContentLoaded handler's promise chain is
    bootLog       \* history: what the page has done, in order

wvars == <<elevations, width, height, passes, step, isWater, pass, wpc, input>>
lvars == <<zoom, lonq, latq, tileX, tileY, startX, startY>>
fvars == <<fpc, issued, loads, joined, stitched, writes, outcome, failLog, tileDim>>
svars == <<store>>
rvars == <<calls, urlLog>>
dvars == <<imageData, decoded>>
mvars == <<terrain, subdivisions, vertexElevation>>
gvars == <<point, tileXY, bounds>>
hvars == <<outputData>>
cvars == <<cpc, cst, cbuf, cstitched, owner, access, running>>
ovars == <<loadOrder>>
bvars == <<dom, bpc, bootLog>>
evars == <<cvars, ovars, bvars>>
xvars == <<svars, dvars, mvars, gvars, hvars, evars>>
vars == <<wvars, lvars, fvars, xvars, rvars>>

\* -------------------------------------------------- non-finite Float32 values
RECURSIVE Pow2(_)
Pow2(z) == IF z = 0 THEN 1 ELSE 2 * Pow2(z - 1)

\* NaN (what a Float32Array holds after `undefined` is stored into it) and
\* the two infinities, as integers outside the range of every elevation.
NaN == 0 - Pow2(30)
PosInf == Pow2(30)
NegInf == 1 - Pow2(30)

\* a < b, a > b and a <= 0 of the language: false when an operand is NaN.
Lt(a, b) == a # NaN /\ b # NaN /\ a < b
Gt(a, b) == a # NaN /\ b # NaN /\ a > b
LeZero(a) == a # NaN /\ a <= 0

\* ------------------------------------------------------- applyWaterDepth
Cells(w, h) == 0 .. (w * h - 1)

InGrid(nx, ny, w, h) == ~(ny < 0 \/ ny >= h \/ nx < 0 \/ nx >= w)

XOf(i, w) == i % w
YOf(i, w) == i \div w

\* Mutant of Neighbours: only the 4 edge-adjacent cells are looked at.
Neighbours4(i, w, h) ==
    { (YOf(i, w) + dy) * w + (XOf(i, w) + dx) :
        <<dx, dy>> \in { d \in (-1 .. 1) \X (-1 .. 1) :
                           /\ (d[1] = 0) # (d[2] = 0)
                           /\ InGrid(XOf(i, w) + d[1], YOf(i, w) + d[2], w, h) } }

\* The in-grid cells among the 8 around cell i (dx = dy = 0 skipped).
Neighbours(i, w, h) ==
    { (YOf(i, w) + dy) * w + (XOf(i, w) + dx) :
        <<dx, dy>> \in { d \in (-1 .. 1) \X (-1 .. 1) :
                           /\ ~(d[1] = 0 /\ d[2] = 0)
                           /\ InGrid(XOf(i, w) + d[1], YOf(i, w) + d[2], w, h) } }

\* isWater[i] = elevations[i] <= 0 ? 1 : 0
MaskOf(elev) == [i \in DOMAIN elev |-> LeZero(elev[i])]

\* Mutant of MaskReset: the mask is taken and the values are left alone.
MaskKeep(elev) == elev

\* if (isWater[i]) elevations[i] = 0
MaskReset(elev) == [i \in DOMAIN elev |-> IF LeZero(elev[i]) THEN 0 ELSE elev[i]]

\* Mutant of AllSameOrLower: a neighbour at the same height holds the cell too.
AllLower(elev, i, w, h) ==
    \A j \in Neighbours(i, w, h) : Lt(elev[j], elev[i])

\* Mutant of AllSameOrLower: a cell outside the grid counts as higher, so
\* only a cell with all 8 neighbours in the grid can go down.
AllSameOrLowerInside(elev, i, w, h) ==
    /\ Cardinality(Neighbours(i, w, h)) = 8
    /\ \A j \in Neighbours(i, w, h) : ~Gt(elev[j], elev[i])

\* Mutant of AllSameOrLower: the comparison is turned round, a cell goes
\* down when no neighbour is strictly lower.
NoneLower(elev, i, w, h) ==
    \A j \in Neighbours(i, w, h) : ~Lt(elev[j], elev[i])

\* allSameOrLower: no in-grid neighbour is strictly higher than cell i.
AllSameOrLower(elev, i, w, h) ==
    \A j \in Neighbours(i, w, h) : ~Gt(elev[j], elev[i])

\* Mutant of DeepenCell: the step is added instead of subtracted.
DeepenCellUp(elev, water, i, w, h, st) ==
    IF water[i] /\ AllSameOrLower(elev, i, w, h)
    THEN [elev EXCEPT ![i] = @ + st]
    ELSE elev

\* One visit of the deepening scan: live values, in place.
DeepenCell(elev, water, i, w, h, st) ==
    IF water[i] /\ AllSameOrLower(elev, i, w, h)
    THEN [elev EXCEPT ![i] = @ - st]
    ELSE elev

\* The scan of one pass from cell i on, row-major (y outer, x inner: i rising).
RECURSIVE DeepenFrom(_, _, _, _, _, _)
DeepenFrom(elev, water, i, w, h, st) ==
    IF i >= w * h THEN elev
    ELSE DeepenFrom(DeepenCell(elev, water, i, w, h, st), water, i + 1, w, h, st)

\* Mutant of DeepenPass: the scan runs over the cells twice in one pass.
DeepenPassTwice(elev, water, w, h, st) ==
    DeepenFrom(DeepenFrom(elev, water, 0, w, h, st), water, 0, w, h, st)

DeepenPass(elev, water, w, h, st) == DeepenFrom(elev, water, 0, w, h, st)

\* Float32 store of a / n: nearest representable value, ties to even.
RoundDiv(a, n) ==
    LET q == a \div n
        r == a % n
    IN  IF 2 * r < n THEN q
        ELSE IF 2 * r > n THEN q + 1
        ELSE IF q % 2 = 0 THEN q ELSE q + 1

NbrVal(copy, nx, ny, w, h) == IF InGrid(nx, ny, w, h) THEN copy[ny * w + nx] ELSE 0
NbrCnt(nx, ny, w, h) == IF InGrid(nx, ny, w, h) THEN 1 ELSE 0

\* sum and count over dy, dx in -1..1, the cell itself included.
SmoothSum(copy, x, y, w, h) ==
      NbrVal(copy, x - 1, y - 1, w, h) + NbrVal(copy, x, y - 1, w, h) + NbrVal(copy, x + 1, y - 1, w, h)
    + NbrVal(copy, x - 1, y, w, h)     + NbrVal(copy, x, y, w, h)     + NbrVal(copy, x + 1, y, w, h)
    + NbrVal(copy, x - 1, y + 1, w, h) + NbrVal(copy, x, y + 1, w, h) + NbrVal(copy, x + 1, y + 1, w, h)

SmoothCount(x, y, w, h) ==
      NbrCnt(x - 1, y - 1, w, h) + NbrCnt(x, y - 1, w, h) + NbrCnt(x + 1, y - 1, w, h)
    + NbrCnt(x - 1, y, w, h)     + NbrCnt(x, y, w, h)     + NbrCnt(x + 1, y, w, h)
    + NbrCnt(x - 1, y + 1, w, h) + NbrCnt(x, y + 1, w, h) + NbrCnt(x + 1, y + 1, w, h)

\* A NaN is among the values summed for cell (x, y): the sum is NaN.
SmoothNaN(copy, x, y, w, h) ==
    \E d \in (-1 .. 1) \X (-1 .. 1) :
        InGrid(x + d[1], y + d[2], w, h) /\ copy[(y + d[2]) * w + (x + d[1])] = NaN

\* elevations[i] = sum / count
SmoothCell(copy, x, y, w, h) ==
    IF SmoothNaN(copy, x, y, w, h) THEN NaN
    ELSE RoundDiv(SmoothSum(copy, x, y, w, h), SmoothCount(x, y, w, h))

\* Mutant of SmoothPass: no snapshot is taken, the mean is formed from the
\* buffer being written, row-major from cell i on.
RECURSIVE SmoothLiveFrom(_, _, _, _, _)
SmoothLiveFrom(elev, water, i, w, h) ==
    IF i >= w * h THEN elev
    ELSE SmoothLiveFrom(
            IF water[i]
            THEN [elev EXCEPT ![i] = SmoothCell(elev, XOf(i, w), YOf(i, w), w, h)]
            ELSE elev,
            water, i + 1, w, h)

SmoothPassLive(elev, water, w, h) == SmoothLiveFrom(elev, water, 0, w, h)

\* Mutant of SmoothPass: the mask is not consulted, land is smoothed too.
SmoothPassAll(elev, water, w, h) ==
    [i \in DOMAIN elev |-> SmoothCell(elev, XOf(i, w), YOf(i, w), w, h)]

\* One smoothing pass: every water cell from the snapshot `copy`.
SmoothPass(elev, water, w, h) ==
    [i \in DOMAIN elev |->
        IF water[i]
        THEN SmoothCell(elev, XOf(i, w), YOf(i, w), w, h)
        ELSE elev[i]]

\* ----------------------------------------------------- processElevations
\* The min/max scan from cell i on: min starts at Infinity, max at
\* -Infinity, and a NaN cell passes neither comparison.
RECURSIVE MinFrom(_, _, _)
MinFrom(elev, i, cur) ==
    IF i \notin DOMAIN elev THEN cur
    ELSE IF Lt(elev[i], cur) THEN MinFrom(elev, i + 1, elev[i])
    ELSE MinFrom(elev, i + 1, cur)

\* Mutant of MaxFrom: the first cell is taken, the others are not compared.
RECURSIVE MaxFromFirst(_, _, _)
MaxFromFirst(elev, i, cur) ==
    IF i \notin DOMAIN elev THEN cur
    ELSE IF cur = NegInf THEN MaxFromFirst(elev, i + 1, elev[i])
    ELSE MaxFromFirst(elev, i + 1, cur)

RECURSIVE MaxFrom(_, _, _)
MaxFrom(elev, i, cur) ==
    IF i \notin DOMAIN elev THEN cur
    ELSE IF Gt(elev[i], cur) THEN MaxFrom(elev, i + 1, elev[i])
    ELSE MaxFrom(elev, i + 1, cur)

\* The TerrainResult built from the buffer applyWaterDepth has worked on.
TerrainResult(e, w, h, tile) ==
    [elevations |-> e,
     minElevation |-> MinFrom(e, 0, PosInf),
     maxElevation |-> MaxFrom(e, 0, NegInf),
     width |-> w, height |-> h, tile |-> tile]

\* ---------------------------------------------- tile coordinates (2x2 group)
\* A target point is given by its two normalised Web-Mercator coordinates,
\* each a multiple of 1/PosDen in [0, 1): lonq / PosDen = (lon + 180) / 360 and
\* latq / PosDen = (1 - asinh(tan(latRad)) / PI) / 2.  PosDen is a power of
\* two that resolves half a tile at the deepest zoom, so that the products
\* below are exact in floating point as well.
PosDen == Pow2(MaxZoom + 1)

\* fracX, fracY in 1/PosDen of a tile: q / PosDen * n.
Frac(q, z) == q * Pow2(z)

\* Math.floor(frac)
TileOf(frac) == frac \div PosDen

\* Mutant of StartOf: the threshold is compared with > instead of >=.
StartOfStrict(frac) ==
    IF 2 * (frac - TileOf(frac) * PosDen) > PosDen
    THEN TileOf(frac)
    ELSE TileOf(frac) - 1

\* frac - tile >= 0.5 ? tile : tile - 1
StartOf(frac) ==
    IF 2 * (frac - TileOf(frac) * PosDen) >= PosDen
    THEN TileOf(frac)
    ELSE TileOf(frac) - 1

\* The tile requested by array slot i of the Promise.all: tl, tr, bl, br.
SlotX(sx, i) == sx + (i % 2)
SlotY(sy, i) == sy + (i \div 2)

\* The tile store holds the tiles of the slippy-map scheme only.
ValidTile(z, x, y) == 0 <= x /\ x < Pow2(z) /\ 0 <= y /\ y < Pow2(z)

\* ---------------------------------------------------- loadTileElevations
Slots == 0 .. 3

Patterns == {"flat", "ramp", "coast"}

\* RGBA bytes of pixel j of the n-pixel image the store serves for tile
\* (x, y): "flat" is 10 m everywhere, "ramp" a different land height in every
\* pixel of the four tiles of a group, "coast" -2 m and 3.5 m in turn.
PixelRGBA(pat, x, y, n, j) ==
    IF pat = "flat" THEN <<128, 10, 0, 255>>
    ELSE IF pat = "ramp"
         THEN <<128, 1 + n * ((x % 2) + 2 * (y % 2)) + j, 128, 255>>
    ELSE IF j % 2 = 0 THEN <<127, 254, 0, 255>>
    ELSE <<128, 3, 128, 255>>

\* imageData: width, height and the RGBA bytes, 4 per pixel, row-major.
Image(pat, x, y, w, h) ==
    [width |-> w, height |-> h,
     data |-> [k \in 0 .. (4 * w * h - 1) |->
                  PixelRGBA(pat, x, y, w * h, k \div 4)[(k % 4) + 1]]]

\* The image sizes a store serves, <<width, height>>.
Shapes == (1 .. MaxTile) \X (1 .. MaxTile)

\* A store whose images are all T x T.
UniformStore(T, pats) == [dims |-> [i \in Slots |-> <<T, T>>], pats |-> pats]

\* Mutant of DecodeTile: three bytes per pixel are stepped over, not four.
DecodeTileRGB(img) ==
    [elevations |-> [i \in 0 .. (img.width * img.height - 1) |->
                        (img.data[3 * i] * 256 + img.data[3 * i + 1]) * Scale
                        + img.data[3 * i + 2] - TerrariumOffset * Scale],
     width |-> img.width,
     height |-> img.height]

\* elevations[i / 4] = (r * 256 + g + b / 256) - 32768, in 1/Scale m.
DecodeTile(img) ==
    [elevations |-> [i \in 0 .. (img.width * img.height - 1) |->
                        (img.data[4 * i] * 256 + img.data[4 * i + 1]) * Scale
                        + img.data[4 * i + 2] - TerrariumOffset * Scale],
     width |-> img.width,
     height |-> img.height]

NoTile == [elevations |-> <<>>, width |-> 0, height |-> 0]

\* Mutant of AllSettle: the join waits for every input to settle and then
\* fulfils, whether or not an input failed (Promise.allSettled).
AllSettledFulfils(j, ls, reason) ==
    IF j.st # "pending" THEN j
    ELSE IF \A i \in Slots : ls[i].st \in {"loaded", "failed"}
         THEN [st |-> "fulfilled", reason |-> <<>>]
    ELSE j

\* Mutant of AllSettle: the join rejects only when every input has settled.
AllSettledThenRejects(j, ls, reason) ==
    IF j.st # "pending" THEN j
    ELSE IF \E i \in Slots : ls[i].st \in {"none", "pending"} THEN j
    ELSE IF \E i \in Slots : ls[i].st = "failed"
         THEN [st |-> "rejected", reason |-> reason]
    ELSE [st |-> "fulfilled", reason |-> <<>>]

\* ------------------------------------------------------------ Promise.all
\* Settling of the Promise.all promise after one of its inputs settled: it
\* rejects with the reason of the first input to reject, it fulfils when
\* every input has fulfilled, and once settled it never changes.
AllSettle(j, ls, reason) ==
    IF j.st # "pending" THEN j
    ELSE IF \E i \in Slots : ls[i].st = "failed"
         THEN [st |-> "rejected", reason |-> reason]
    ELSE IF \A i \in Slots : ls[i].st = "loaded"
         THEN [st |-> "fulfilled", reason |-> <<>>]
    ELSE j

\* Mutant of ReadyToAwait: the first load is awaited before the others are
\* issued.
ReadyToAwaitFirst(n) == n >= 1

\* The array literal is evaluated in full, four calls, before the await.
ReadyToAwait(n) == n = 4

\* ---------------------------------------------------------------- stitching
\* Mutant of StitchDest: the quadrant offsets ox and oy are exchanged.
StitchDestSwapped(i, row, col, T) ==
    ((i % 2) * T + row) * (T * 2) + ((i \div 2) * T + col)

StitchDest(i, row, col, T) ==
    ((i \div 2) * T + row) * (T * 2) + ((i % 2) * T + col)

\* elevations[k] stored into a Float32Array: a read past the end of the
\* source gives undefined, which is stored as NaN.
ReadCell(elev, k) == IF k \in DOMAIN elev THEN elev[k] ELSE NaN

\* The stores of the triple loop from its n-th iteration on
\* (n = i*T*T + row*T + col), into a zero-filled Float32Array.
RECURSIVE StitchFrom(_, _, _, _)
StitchFrom(acc, rawTiles, T, n) ==
    IF n >= 4 * T * T THEN acc
    ELSE LET i == n \div (T * T)
             row == (n % (T * T)) \div T
             col == n % T
             d == StitchDest(i, row, col, T)
         IN  StitchFrom([buf |-> [acc.buf EXCEPT ![d] = ReadCell(rawTiles[i].elevations, row * T + col)],
                         cnt |-> [acc.cnt EXCEPT ![d] = @ + 1]],
                        rawTiles, T, n + 1)

Stitch(rawTiles) ==
    LET tileSize == rawTiles[0].width
        stitchedSize == tileSize * 2
        zeros == [k \in 0 .. (stitchedSize * stitchedSize - 1) |-> 0]
    IN  StitchFrom([buf |-> zeros, cnt |-> zeros], rawTiles, tileSize, 0)

\* -------------------------------------------------------------- idle parts
WIdle ==
    /\ elevations = <<>> /\ width = 0 /\ height = 0 /\ passes = 0 /\ step = 0
    /\ isWater = <<>> /\ pass = 0 /\ wpc = "off" /\ input = <<>>

LIdle ==
    /\ zoom = 0 /\ lonq = 0 /\ latq = 0
    /\ tileX = 0 /\ tileY = 0 /\ startX = 0 /\ startY = 0

FIdle ==
    /\ fpc = "idle"
    /\ issued = 0
    /\ loads = [i \in Slots |-> [st |-> "none", x |-> 0, y |-> 0, tile |-> NoTile]]
    /\ joined = [st |-> "pending", reason |-> <<>>]
    /\ stitched = <<>>
    /\ writes = <<>>
    /\ outcome = <<>>
    /\ failLog = <<>>
    /\ calls = 0
    /\ urlLog = <<>>

NoImage == [width |-> 0, height |-> 0, data |-> <<>>]

DIdle == imageData = NoImage /\ decoded = NoTile

MIdle == terrain = NoTile /\ subdivisions = 0 /\ vertexElevation = <<>>

NoPoint == [lat |-> <<0, 0>>, lon |-> <<0, 0>>, zoom |-> 0]
NoXY == [x |-> 0 - 1, y |-> 0 - 1]
NoBounds == [lonWest |-> <<0, 0>>, lonEast |-> <<0, 0>>,
             latNorth |-> <<0, 0>>, latSouth |-> <<0, 0>>]

GIdle == point = NoPoint /\ tileXY = NoXY /\ bounds = NoBounds

NoOutput == <<>>

HIdle == outputData = NoOutput

Requests == 1 .. MaxRequests

CIdle ==
    /\ cpc = [r \in Requests |-> "idle"]
    /\ cst = [r \in Requests |-> [i \in Slots |-> "none"]]
    /\ cbuf = [r \in Requests |-> [i \in Slots |-> 0]]
    /\ cstitched = [r \in Requests |-> 0]
    /\ owner = <<>>
    /\ access = {}
    /\ running = 0

OIdle == loadOrder = <<>>

NoDom == [canvas |-> FALSE, loading |-> FALSE]
BIdle == dom = NoDom /\ bpc = "none" /\ bootLog = <<>>

EIdle == CIdle /\ OIdle /\ BIdle

XIdle == DIdle /\ MIdle /\ GIdle /\ HIdle /\ EIdle

\* ------------------------------------ applyWaterDepth, one step per pass
\* The 4x4 fields with one corner cell at sea level and 100 m everywhere else.
CornerFields ==
    { [i \in Cells(4, 4) |-> IF i = c THEN 0 ELSE 100 * Scale] : c \in {0, 3, 12, 15} }

WInit ==
    /\ \/ /\ width \in 1 .. MaxCells
          /\ height \in 1 .. MaxCells
          /\ width * height <= MaxCells
          /\ elevations \in { f \in [Cells(width, height) -> UNION { ElevChoices(i) : i \in 0 .. 1 }] :
                                \A i \in Cells(width, height) : f[i] \in ElevChoices(i) }
       \/ /\ width = 4
          /\ height = 4
          /\ elevations \in CornerFields
    \* no deepening at all, or MaxPasses passes: the run of k < MaxPasses
    \* passes is the run of MaxPasses passes up to its k-th
    /\ passes \in {0, MaxPasses}
    /\ step \in { m * (Scale \div 2) : m \in 1 .. MaxStep }
    /\ isWater = [i \in Cells(width, height) |-> FALSE]
    /\ pass = 0
    /\ wpc = "mask"
    /\ input = elevations
    /\ LIdle /\ FIdle /\ tileDim = 1 /\ store = UniformStore(1, Patterns)
    /\ XIdle

Mask ==
    /\ wpc = "mask"
    /\ isWater' = MaskOf(elevations)
    /\ elevations' = MaskReset(elevations)
    /\ pass' = 0
    /\ wpc' = "deepen"
    /\ UNCHANGED <<xvars, rvars, width, height, passes, step, input, lvars, fvars>>

Deepen ==
    /\ wpc = "deepen"
    /\ pass < passes
    /\ elevations' = DeepenPass(elevations, isWater, width, height, step)
    /\ pass' = pass + 1
    /\ UNCHANGED <<xvars, rvars, width, height, passes, step, isWater, wpc, input, lvars, fvars>>

DeepenDone ==
    /\ wpc = "deepen"
    /\ ~(pass < passes)
    /\ pass' = 0
    /\ wpc' = "smooth"
    /\ UNCHANGED <<xvars, rvars, elevations, width, height, passes, step, isWater, input, lvars, fvars>>

\* Mutant of Smooth: the mask is recomputed from the smoothed values.
SmoothRemask ==
    /\ wpc = "smooth"
    /\ pass < smoothPasses
    /\ elevations' = SmoothPass(elevations, isWater, width, height)
    /\ isWater' = MaskOf(elevations')
    /\ pass' = pass + 1
    /\ UNCHANGED <<xvars, rvars, width, height, passes, step, wpc, input, lvars, fvars>>

Smooth ==
    /\ wpc = "smooth"
    /\ pass < smoothPasses
    /\ elevations' = SmoothPass(elevations, isWater, width, height)
    /\ pass' = pass + 1
    /\ UNCHANGED <<xvars, rvars, width, height, passes, step, isWater, wpc, input, lvars, fvars>>

SmoothDone ==
    /\ wpc = "smooth"
    /\ ~(pass < smoothPasses)
    /\ wpc' = "done"
    /\ UNCHANGED <<xvars, rvars, elevations, width, height, passes, step, isWater, pass, input, lvars, fvars>>

WNext == Mask \/ Deepen \/ DeepenDone \/ Smooth \/ SmoothDone

SpecWater == WInit /\ [][WNext]_vars

\* ------------------------------------------- the 2x2 group of a target point
LInit ==
    /\ WIdle /\ LIdle /\ FIdle /\ tileDim = 1 /\ store = UniformStore(1, Patterns)
    /\ XIdle

\* Lines 228-243 of fetchTileAtLocation, for every zoom and target point.
Locate(z, lq, aq) ==
    /\ fpc = "idle"
    /\ zoom' = z /\ lonq' = lq /\ latq' = aq
    /\ tileX' = TileOf(Frac(lq, z))
    /\ tileY' = TileOf(Frac(aq, z))
    /\ startX' = StartOf(Frac(lq, z))
    /\ startY' = StartOf(Frac(aq, z))
    /\ fpc' = "located"
    /\ UNCHANGED <<xvars, rvars, wvars, issued, loads, joined, stitched, writes, outcome, failLog, tileDim>>

\* The caller is done with the group; the next target is looked up.
Forget ==
    /\ fpc = "located"
    /\ fpc' = "idle"
    /\ UNCHANGED <<xvars, rvars, wvars, lvars, issued, loads, joined, stitched, writes, outcome, failLog, tileDim>>

LNext ==
    \/ \E z \in 0 .. MaxZoom, lq \in 0 .. (PosDen - 1), aq \in 1 .. (PosDen - 1) :
          Locate(z, lq, aq)
    \/ Forget

SpecLocate == LInit /\ [][LNext]_vars

\* ------------------------------------------------------ fetchTileAtLocation
\* Target points of the requests: the antimeridian and the centre of the
\* map, on the equator.
FetchTargets ==
    { <<z, lq, PosDen \div 2>> : z \in 0 .. MaxZoom, lq \in {0, PosDen \div 2} }

FInit ==
    /\ WIdle /\ LIdle /\ FIdle
    /\ tileDim \in 1 .. MaxTile
    /\ store = UniformStore(tileDim, Patterns)
    /\ XIdle

\* No synchronous code and no promise reaction is pending: an image event
\* can be delivered.
EventLoopIdle ==
    /\ fpc \in {"await", "failed", "done"}
    /\ ~(fpc = "await" /\ joined.st # "pending")

Call(z, lq, aq) ==
    /\ fpc = "idle"
    /\ zoom' = z /\ lonq' = lq /\ latq' = aq
    /\ tileX' = TileOf(Frac(lq, z))
    /\ tileY' = TileOf(Frac(aq, z))
    /\ startX' = StartOf(Frac(lq, z))
    /\ startY' = StartOf(Frac(aq, z))
    /\ fpc' = "issue"
    /\ calls' = calls + 1
    /\ UNCHANGED <<xvars, urlLog, wvars, issued, loads, joined, stitched, writes, outcome, failLog, tileDim>>

\* Mutant of Issue: a tile that was requested before is not requested again.
IssueCached ==
    /\ fpc = "issue"
    /\ issued < 4
    /\ loads' = [loads EXCEPT ![issued] =
                    [st |-> "pending", x |-> SlotX(startX, issued),
                     y |-> SlotY(startY, issued), tile |-> NoTile]]
    /\ issued' = issued + 1
    /\ urlLog' =
          IF \E k \in 1 .. Len(urlLog) :
                urlLog[k][2] = zoom /\ urlLog[k][3] = SlotX(startX, issued)
                /\ urlLog[k][4] = SlotY(startY, issued)
          THEN urlLog
          ELSE Append(urlLog, <<calls, zoom, SlotX(startX, issued), SlotY(startY, issued)>>)
    /\ UNCHANGED <<xvars, calls, wvars, lvars, fpc, joined, stitched, writes, outcome, failLog, tileDim>>

\* The next loadTileElevations call of the array literal: runs to its await,
\* the image request is out.
Issue ==
    /\ fpc = "issue"
    /\ issued < 4
    /\ loads' = [loads EXCEPT ![issued] =
                    [st |-> "pending", x |-> SlotX(startX, issued),
                     y |-> SlotY(startY, issued), tile |-> NoTile]]
    /\ issued' = issued + 1
    /\ urlLog' = Append(urlLog, <<calls, zoom, SlotX(startX, issued), SlotY(startY, issued)>>)
    /\ UNCHANGED <<xvars, calls, wvars, lvars, fpc, joined, stitched, writes, outcome, failLog, tileDim>>

AwaitAll ==
    /\ fpc = "issue"
    /\ ReadyToAwait(issued)
    /\ fpc' = "await"
    /\ UNCHANGED <<xvars, rvars, wvars, lvars, issued, loads, joined, stitched, writes, outcome, failLog, tileDim>>

\* img.onload of slot i: the load resumes, decodes and fulfils its promise.
LoadOk(i, pat) ==
    /\ EventLoopIdle
    /\ loads[i].st = "pending"
    /\ ValidTile(zoom, loads[i].x, loads[i].y)
    /\ pat \in store.pats
    /\ loads' = [loads EXCEPT ![i].st = "loaded",
                              ![i].tile = DecodeTile(Image(pat, loads[i].x, loads[i].y,
                                                           store.dims[i][1], store.dims[i][2]))]
    /\ joined' = AllSettle(joined, loads', <<>>)
    /\ UNCHANGED <<xvars, rvars, wvars, lvars, fpc, issued, stitched, writes, outcome, failLog, tileDim>>

\* img.onerror of slot i: the promise rejects with the tile's URL.
LoadFail(i) ==
    /\ EventLoopIdle
    /\ loads[i].st = "pending"
    /\ loads' = [loads EXCEPT ![i].st = "failed"]
    /\ joined' = AllSettle(joined, loads', <<zoom, loads[i].x, loads[i].y>>)
    /\ failLog' = Append(failLog, i)
    /\ UNCHANGED <<xvars, rvars, wvars, lvars, fpc, issued, stitched, writes, outcome, tileDim>>

\* The await throws: fetchTileAtLocation's promise rejects with the reason.
Reject ==
    /\ fpc = "await"
    /\ joined.st = "rejected"
    /\ outcome' = Append(outcome, [kind |-> "error", tile |-> joined.reason])
    /\ fpc' = "failed"
    /\ UNCHANGED <<xvars, rvars, wvars, lvars, issued, loads, joined, stitched, writes, failLog, tileDim>>

\* Mutant of StitchTiles: the awaited array holds the tiles in the order
\* their images loaded, not in the order of the calls.
StitchTilesByArrival ==
    /\ fpc = "await"
    /\ joined.st = "fulfilled"
    /\ Len(loadOrder) = 4
    /\ stitched' = Stitch([i \in Slots |-> loads[loadOrder[i + 1]].tile]).buf
    /\ writes' = Stitch([i \in Slots |-> loads[loadOrder[i + 1]].tile]).cnt
    /\ fpc' = "stitched"
    /\ UNCHANGED <<xvars, rvars, wvars, lvars, issued, loads, joined, outcome, failLog, tileDim>>

\* The await returns [tl, tr, bl, br]: the stitching loop.
StitchTiles ==
    /\ fpc = "await"
    /\ joined.st = "fulfilled"
    /\ stitched' = Stitch([i \in Slots |-> loads[i].tile]).buf
    /\ writes' = Stitch([i \in Slots |-> loads[i].tile]).cnt
    /\ fpc' = "stitched"
    /\ UNCHANGED <<xvars, rvars, wvars, lvars, issued, loads, joined, outcome, failLog, tileDim>>

\* Mutant of Process: the height passed on is twice the first tile's height.
ProcessOwnHeight ==
    /\ fpc = "stitched"
    /\ elevations' = stitched
    /\ input' = stitched
    /\ width' = loads[0].tile.width * 2
    /\ height' = loads[0].tile.height * 2
    /\ passes' = ProcessPasses
    /\ step' = ProcessStep * Scale
    /\ isWater' = [i \in DOMAIN stitched |-> FALSE]
    /\ pass' = 0
    /\ wpc' = "mask"
    /\ fpc' = "process"
    /\ UNCHANGED <<xvars, rvars, lvars, issued, loads, joined, stitched, writes, outcome, failLog, tileDim>>

\* processElevations(stitched, stitchedSize, stitchedSize, ..) is entered:
\* applyWaterDepth(elevations, width, height, 100, 1) starts on the buffer.
Process ==
    /\ fpc = "stitched"
    /\ elevations' = stitched
    /\ input' = stitched
    /\ width' = loads[0].tile.width * 2
    /\ height' = loads[0].tile.width * 2
    /\ passes' = ProcessPasses
    /\ step' = ProcessStep * Scale
    /\ isWater' = [i \in DOMAIN stitched |-> FALSE]
    /\ pass' = 0
    /\ wpc' = "mask"
    /\ fpc' = "process"
    /\ UNCHANGED <<xvars, rvars, lvars, issued, loads, joined, stitched, writes, outcome, failLog, tileDim>>

\* applyWaterDepth has returned: the min/max scan, and the result is returned.
Return ==
    /\ fpc = "process"
    /\ wpc = "done"
    /\ stitched' = elevations
    /\ outcome' = Append(outcome,
                     [kind |-> "result",
                      result |-> TerrainResult(elevations, width, height, <<zoom, tileX, tileY>>)])
    /\ fpc' = "done"
    /\ UNCHANGED <<xvars, rvars, wvars, lvars, issued, loads, joined, writes, failLog, tileDim>>

Next ==
    \/ \E t \in FetchTargets : Call(t[1], t[2], t[3])
    \/ Issue
    \/ AwaitAll
    \/ \E i \in Slots, pat \in Patterns : LoadOk(i, pat)
    \/ \E i \in Slots : LoadFail(i)
    \/ Reject
    \/ StitchTiles
    \/ Process
    \/ WNext
    \/ Return

Init == FInit

Spec == Init /\ [][Next]_vars

\* ------------------------------------------------------------------ index.ts
\* The DOMContentLoaded handler and the promise chain
\* game.initialize().then(..).catch(..), with Game.initialize awaiting
\* TerrainTiles.fetchTileAtLocation.
Doms == [canvas : BOOLEAN, loading : BOOLEAN]

\* The target of Game.initialize's fetch, a point inside the map at the
\* deepest zoom.
BootTarget == <<MaxZoom, PosDen \div 2, PosDen \div 2>>

BInit ==
    /\ WIdle /\ LIdle /\ FIdle /\ tileDim = 1 /\ store = UniformStore(1, {"flat"})
    /\ DIdle /\ MIdle /\ GIdle /\ HIdle /\ CIdle /\ OIdle
    /\ dom \in Doms
    /\ bpc = "page"
    /\ bootLog = <<>>

BootUnchanged == <<wvars, lvars, fvars, rvars, svars, dvars, mvars, gvars, hvars, cvars, ovars, dom>>

\* index.ts lines 4-16: without a canvas the handler logs and returns; with
\* one it constructs the Game and calls initialize.
DomContentLoaded ==
    /\ bpc = "page"
    /\ IF dom.canvas
       THEN bpc' = "initialize" /\ bootLog' = Append(bootLog, "initialize")
       ELSE bpc' = "returned" /\ bootLog' = Append(bootLog, "no canvas")
    /\ UNCHANGED BootUnchanged

\* Game.initialize up to its await: the scene is set up and
\* fetchTileAtLocation is called.
InitializeFetch ==
    /\ bpc = "initialize"
    /\ calls = 0
    /\ Call(BootTarget[1], BootTarget[2], BootTarget[3])

\* The await returns the terrain: the mesh and the water plane are created
\* and initialize's promise fulfils.
InitializeResolves ==
    /\ bpc = "initialize"
    /\ fpc = "done"
    /\ bpc' = "initialized"
    /\ bootLog' = Append(bootLog, "initialized")
    /\ UNCHANGED BootUnchanged

\* The await throws: initialize's promise rejects.
InitializeRejects ==
    /\ bpc = "initialize"
    /\ fpc = "failed"
    /\ bpc' = "rejected"
    /\ bootLog' = Append(bootLog, "rejected")
    /\ UNCHANGED BootUnchanged

\* Mutant of ThenCallback: the callback does not wait for initialize.
ThenCallbackEarly ==
    /\ bpc = "initialize"
    /\ bpc' = "running"
    /\ bootLog' = IF dom.loading THEN bootLog \o <<"hide", "run">> ELSE Append(bootLog, "run")
    /\ UNCHANGED BootUnchanged

\* index.ts lines 16-26: the loading screen, if the page has one, is hidden,
\* and game.run() starts the render loop.
ThenCallback ==
    /\ bpc = "initialized"
    /\ bpc' = "running"
    /\ bootLog' = IF dom.loading THEN bootLog \o <<"hide", "run">> ELSE Append(bootLog, "run")
    /\ UNCHANGED BootUnchanged

\* index.ts lines 27-29: console.error('Failed to initialize game:', error)
CatchHandler ==
    /\ bpc = "rejected"
    /\ bpc' = "caught"
    /\ bootLog' = Append(bootLog, "error")
    /\ UNCHANGED BootUnchanged

BNext ==
    \/ DomContentLoaded
    \/ InitializeFetch
    \/ Issue
    \/ AwaitAll
    \/ \E i \in Slots, pat \in Patterns : LoadOk(i, pat)
    \/ \E i \in Slots : LoadFail(i)
    \/ Reject
    \/ StitchTiles
    \/ Process
    \/ WNext
    \/ Return
    \/ InitializeResolves
    \/ InitializeRejects
    \/ ThenCallback
    \/ CatchHandler

\* A promise reaction that is due is run: the job queue is always emptied.
\* An image event may never come.
SpecBoot ==
    /\ BInit
    /\ [][BNext]_vars
    /\ WF_vars(Reject)
    /\ WF_vars(InitializeRejects)
    /\ WF_vars(CatchHandler)

\* --------------------------------------- the order the four images load in
\* img.onload of slot i as in LoadOk, with the slot noted in loadOrder.
LoadOkNoted(i, pat) ==
    /\ EventLoopIdle
    /\ loads[i].st = "pending"
    /\ ValidTile(zoom, loads[i].x, loads[i].y)
    /\ pat \in store.pats
    /\ loads' = [loads EXCEPT ![i].st = "loaded",
                              ![i].tile = DecodeTile(Image(pat, loads[i].x, loads[i].y,
                                                           store.dims[i][1], store.dims[i][2]))]
    /\ joined' = AllSettle(joined, loads', <<>>)
    /\ loadOrder' = Append(loadOrder, i)
    /\ UNCHANGED <<svars, dvars, mvars, gvars, hvars, cvars, bvars, rvars, wvars, lvars,
                   fpc, issued, stitched, writes, outcome, failLog, tileDim>>

\* A store of "ramp" images: every pixel of the four tiles of a group has a
\* height of its own, all above sea level.
OInit ==
    /\ WIdle /\ LIdle /\ FIdle
    /\ tileDim \in 1 .. MaxTile
    /\ store = UniformStore(tileDim, {"ramp"})
    /\ XIdle

ONext ==
    \/ \E t \in FetchTargets : Call(t[1], t[2], t[3])
    \/ Issue
    \/ AwaitAll
    \/ \E i \in Slots, pat \in Patterns : LoadOkNoted(i, pat)
    \/ \E i \in Slots : LoadFail(i)
    \/ Reject
    \/ StitchTiles
    \/ Process
    \/ WNext
    \/ Return

SpecOrder == OInit /\ [][ONext]_vars

\* ------------------------------------------ one request after the other
\* TerrainTiles has static methods only and keeps nothing between calls: the
\* caller has its result or its error and calls fetchTileAtLocation again.
\* Every local of the finished invocation is gone; events of its loads that
\* are still out have no one to go to.
NewRequest ==
    /\ fpc \in {"done", "failed"}
    /\ calls < MaxCalls
    /\ fpc' = "idle"
    /\ issued' = 0
    /\ loads' = [i \in Slots |-> [st |-> "none", x |-> 0, y |-> 0, tile |-> NoTile]]
    /\ joined' = [st |-> "pending", reason |-> <<>>]
    /\ stitched' = <<>>
    /\ writes' = <<>>
    /\ failLog' = <<>>
    /\ elevations' = <<>> /\ width' = 0 /\ height' = 0 /\ passes' = 0 /\ step' = 0
    /\ isWater' = <<>> /\ pass' = 0 /\ wpc' = "off" /\ input' = <<>>
    /\ zoom' = 0 /\ lonq' = 0 /\ latq' = 0
    /\ tileX' = 0 /\ tileY' = 0 /\ startX' = 0 /\ startY' = 0
    /\ UNCHANGED <<xvars, rvars, outcome, tileDim>>

RInit ==
    /\ WIdle /\ LIdle /\ FIdle
    /\ tileDim = 1
    /\ store = UniformStore(1, {"flat"})
    /\ XIdle

RNext == Next \/ NewRequest

SpecRepeat == RInit /\ [][RNext]_vars

\* ------------------------------------------------- requests in flight at once
\* Several invocations of fetchTileAtLocation are under way.  Each owns its
\* locals; what they could share is the heap.  A buffer is a number, the
\* position of its allocation in `owner`.  One invocation's synchronous code
\* is on the call stack at a time: an image event or a promise reaction is
\* run when the stack is empty (running = 0), and the code from one await to
\* the next, or to the return, is run without giving the stack up.
Others == << wvars, lvars, fvars, rvars, svars, dvars, mvars, gvars, hvars, ovars, bvars >>

\* new Float32Array(..) by invocation r
Alloc(r) == Append(owner, r)

\* Lines 228-251: the four loadTileElevations calls run to their await, the
\* invocation suspends at the await of Promise.all.
Start(r) ==
    /\ running = 0
    /\ cpc[r] = "idle"
    /\ cst' = [cst EXCEPT ![r] = [i \in Slots |-> "pending"]]
    /\ cpc' = [cpc EXCEPT ![r] = "await"]
    /\ UNCHANGED <<Others, cbuf, cstitched, owner, access, running>>

\* Mutant of TileLoaded: the image event is run whatever is on the stack.
TileLoadedAnytime(r, i) ==
    /\ cst[r][i] = "pending"
    /\ owner' = Alloc(r)
    /\ cbuf' = [cbuf EXCEPT ![r][i] = Len(owner) + 1]
    /\ access' = access \cup {<<Len(owner) + 1, r>>}
    /\ cst' = [cst EXCEPT ![r][i] = "decoded"]
    /\ UNCHANGED <<Others, cpc, cstitched, running>>

\* img.onload of slot i of invocation r, lines 46-64: the elevations buffer
\* is allocated and filled, and the promise resolves with it.
TileLoaded(r, i) ==
    /\ running = 0
    /\ cst[r][i] = "pending"
    /\ owner' = Alloc(r)
    /\ cbuf' = [cbuf EXCEPT ![r][i] = Len(owner) + 1]
    /\ access' = access \cup {<<Len(owner) + 1, r>>}
    /\ cst' = [cst EXCEPT ![r][i] = "decoded"]
    /\ UNCHANGED <<Others, cpc, cstitched, running>>

\* The await of Promise.all returns: lines 253-257 allocate `stitched`.
Resume(r) ==
    /\ running = 0
    /\ cpc[r] = "await"
    /\ \A i \in Slots : cst[r][i] = "decoded"
    /\ running' = r
    /\ owner' = Alloc(r)
    /\ cstitched' = [cstitched EXCEPT ![r] = Len(owner) + 1]
    /\ cpc' = [cpc EXCEPT ![r] = "stitch"]
    /\ UNCHANGED <<Others, cst, cbuf, access>>

\* Lines 258-268: rawTiles[i].elevations are read, stitched is written.
StitchLoop(r) ==
    /\ running = r
    /\ cpc[r] = "stitch"
    /\ access' = access \cup { <<cbuf[r][i], r>> : i \in Slots } \cup {<<cstitched[r], r>>}
    /\ cpc' = [cpc EXCEPT ![r] = "synthesis"]
    /\ UNCHANGED <<Others, cst, cbuf, cstitched, owner, running>>

\* Line 281 into processElevations: applyWaterDepth works on stitched in place.
Synthesis(r) ==
    /\ running = r
    /\ cpc[r] = "synthesis"
    /\ access' = access \cup {<<cstitched[r], r>>}
    /\ cpc' = [cpc EXCEPT ![r] = "scan"]
    /\ UNCHANGED <<Others, cst, cbuf, cstitched, owner, running>>

\* Lines 160-169 and 282-284: the min/max scan reads stitched, the result is
\* returned and the stack is empty again.
ScanAndReturn(r) ==
    /\ running = r
    /\ cpc[r] = "scan"
    /\ access' = access \cup {<<cstitched[r], r>>}
    /\ cpc' = [cpc EXCEPT ![r] = "done"]
    /\ running' = 0
    /\ UNCHANGED <<Others, cst, cbuf, cstitched, owner>>

CInit == WIdle /\ LIdle /\ FIdle /\ tileDim = 1 /\ store = UniformStore(1, Patterns) /\ XIdle

CNext ==
    \/ \E r \in Requests : Start(r)
    \/ \E r \in Requests, i \in Slots : TileLoaded(r, i)
    \/ \E r \in Requests : Resume(r)
    \/ \E r \in Requests : StitchLoop(r)
    \/ \E r \in Requests : Synthesis(r)
    \/ \E r \in Requests : ScanAndReturn(r)

SpecConcurrent == CInit /\ [][CNext]_vars

\* ---------------------------------------------------------------- fetchTile
\* Tiles asked of fetchTile: the first two of the top row (at zoom 0 the
\* second one does not exist).
TileTargets == { <<z, x, 0>> : z \in 0 .. MaxZoom, x \in {0, 1} }

\* fetchTile(z, x, y) runs loadTileElevations to its await: the image
\* request is out.
CallTile(z, x, y) ==
    /\ fpc = "idle"
    /\ zoom' = z /\ tileX' = x /\ tileY' = y
    /\ loads' = [loads EXCEPT ![0] = [st |-> "pending", x |-> x, y |-> y, tile |-> NoTile]]
    /\ issued' = 1
    /\ calls' = calls + 1
    /\ urlLog' = Append(urlLog, <<calls + 1, z, x, y>>)
    /\ fpc' = "tile_await"
    /\ UNCHANGED <<xvars, wvars, lonq, latq, startX, startY, joined, stitched, writes,
                   outcome, failLog, tileDim>>

\* img.onload: the load resumes, decodes and returns to fetchTile.
TileOk(pat) ==
    /\ fpc = "tile_await"
    /\ loads[0].st = "pending"
    /\ ValidTile(zoom, loads[0].x, loads[0].y)
    /\ pat \in store.pats
    /\ loads' = [loads EXCEPT ![0].st = "loaded",
                              ![0].tile = DecodeTile(Image(pat, loads[0].x, loads[0].y,
                                                           store.dims[0][1], store.dims[0][2]))]
    /\ fpc' = "tile_loaded"
    /\ UNCHANGED <<xvars, rvars, wvars, lvars, issued, joined, stitched, writes, outcome,
                   failLog, tileDim>>

\* img.onerror: the load rejects and fetchTile's promise rejects with it.
TileFail ==
    /\ fpc = "tile_await"
    /\ loads[0].st = "pending"
    /\ loads' = [loads EXCEPT ![0].st = "failed"]
    /\ outcome' = Append(outcome, [kind |-> "error", tile |-> <<zoom, loads[0].x, loads[0].y>>])
    /\ fpc' = "tile_failed"
    /\ UNCHANGED <<xvars, rvars, wvars, lvars, issued, joined, stitched, writes, failLog, tileDim>>

\* processElevations(raw.elevations, raw.width, raw.height, ..) is entered.
TileProcess ==
    /\ fpc = "tile_loaded"
    /\ elevations' = loads[0].tile.elevations
    /\ input' = loads[0].tile.elevations
    /\ width' = loads[0].tile.width
    /\ height' = loads[0].tile.height
    /\ passes' = ProcessPasses
    /\ step' = ProcessStep * Scale
    /\ isWater' = [i \in DOMAIN loads[0].tile.elevations |-> FALSE]
    /\ pass' = 0
    /\ wpc' = "mask"
    /\ fpc' = "tile_process"
    /\ UNCHANGED <<xvars, rvars, lvars, issued, loads, joined, stitched, writes, outcome,
                   failLog, tileDim>>

TileReturn ==
    /\ fpc = "tile_process"
    /\ wpc = "done"
    /\ outcome' = Append(outcome,
                     [kind |-> "result",
                      result |-> TerrainResult(elevations, width, height, <<zoom, tileX, tileY>>)])
    /\ fpc' = "tile_done"
    /\ UNCHANGED <<xvars, rvars, wvars, lvars, issued, loads, joined, stitched, writes,
                   failLog, tileDim>>

TNext ==
    \/ \E t \in TileTargets : CallTile(t[1], t[2], t[3])
    \/ \E pat \in Patterns : TileOk(pat)
    \/ TileFail
    \/ TileProcess
    \/ TileReturn

\* Both entry points, on a store whose images all have one square size.
ANext == Next \/ TNext

SpecApi == FInit /\ [][ANext]_vars

\* ------------------------------------------ a store of images of any size
\* One image shape for the store and one slot whose image has another; all
\* images of a store are of one pattern.
AnyStores ==
    { [dims |-> [i \in Slots |-> IF i = odd THEN other ELSE base], pats |-> {pat}] :
        base \in Shapes, other \in Shapes, odd \in Slots, pat \in {"ramp", "coast"} }

MInit ==
    /\ WIdle /\ LIdle /\ FIdle
    /\ store \in AnyStores
    /\ tileDim = store.dims[0][1]
    /\ XIdle

SpecAnyStore == MInit /\ [][ANext]_vars

\* ------------------------------------------- loadTileElevations on its own
\* The bytes a channel of a pixel is drawn from.
ChannelChoices(c) ==
    IF c = 0 THEN {0, 128, 255}
    ELSE IF c = 1 THEN {0, 255}
    ELSE IF c = 2 THEN {0, 128}
    ELSE {0, 255}

\* The pixels over those bytes, <<R, G, B, A>>.
PixelChoices ==
    ChannelChoices(0) \X ChannelChoices(1) \X ChannelChoices(2) \X ChannelChoices(3)

\* Every image of w x h such pixels.
ImagesOf(w, h) ==
    { [width |-> w, height |-> h,
       data |-> [k \in 0 .. (4 * w * h - 1) |-> px[k \div 4][(k % 4) + 1]]] :
        px \in [0 .. (w * h - 1) -> PixelChoices] }

DInit ==
    /\ WIdle /\ LIdle /\ FIdle /\ tileDim = 1 /\ store = UniformStore(1, Patterns)
    /\ \E w \in 1 .. MaxPixels, h \in 1 .. MaxPixels :
          /\ w * h <= MaxPixels
          /\ imageData \in ImagesOf(w, h)
    /\ decoded = NoTile
    /\ MIdle /\ GIdle /\ HIdle /\ EIdle

\* Lines 52-64: the decoding loop over the pixels and the return.
Decode ==
    /\ decoded = NoTile
    /\ decoded' = DecodeTile(imageData)
    /\ UNCHANGED <<wvars, lvars, fvars, svars, rvars, mvars, gvars, hvars, evars, imageData>>

DNext == Decode

SpecDecode == DInit /\ [][DNext]_vars

\* --------------------------------------------- double-precision arithmetic
\* createTerrainMesh computes in IEEE-754 doubles.  The model's doubles are
\* binary floating-point numbers of the same kind with a significand of
\* MantBits bits instead of 53: a value is an integer number of 1/Scale with
\* at most MantBits significant bits, and every operation gives the exact
\* result rounded to the nearest such value, ties to even.
RoundAbs(num, den) ==
    LET RECURSIVE Shift(_, _)
        Shift(q, e) == IF q < Pow2(MantBits) THEN e ELSE Shift(q \div 2, e + 1)
        e == Shift(num \div den, 0)
    IN  RoundDiv(num, den * Pow2(e)) * Pow2(e)

\* num / den (den > 0), rounded.
FRound(num, den) == IF num < 0 THEN 0 - RoundAbs(0 - num, den) ELSE RoundAbs(num, den)

FAdd(a, b) == IF a = NaN \/ b = NaN THEN NaN ELSE FRound(a + b, 1)
FSub(a, b) == IF a = NaN \/ b = NaN THEN NaN ELSE FRound(a - b, 1)
FMul(a, b) == IF a = NaN \/ b = NaN THEN NaN ELSE FRound(a * b, Scale)
FDiv(a, b) == IF a = NaN \/ b = NaN THEN NaN ELSE FRound(a * Scale, b)

\* The double of a small integer.
FInt(n) == n * Scale

\* Math.floor of a double >= 0, as an integer.
Floor(a) == a \div Scale

\* ------------------------------------------------ Game.createTerrainMesh
\* Mutant of PxOf: u is scaled by elevW, the last vertex falls past the field.
PxOfWidth(col, sub, elevW) == FMul(FDiv(FInt(col), FInt(sub)), FInt(elevW))

\* const px = u * (elevW - 1) with u = col / subdivisions
PxOf(col, sub, elevW) == FMul(FDiv(FInt(col), FInt(sub)), FInt(elevW - 1))

\* Mutant of X1Of: the neighbour index is not clamped to the last column.
X1OfNoClamp(x0, elevW) == x0 + 1

\* Math.min(x0 + 1, elevW - 1)
X1Of(x0, elevW) == IF x0 + 1 < elevW - 1 THEN x0 + 1 ELSE elevW - 1

\* Mutant of Bilinear: the weights of e00 are (1 + fx) and (1 + fy).
BilinearPlus(e00, e10, e01, e11, fx, fy) ==
    FAdd(FAdd(FAdd(FMul(FMul(e00, FAdd(FInt(1), fx)), FAdd(FInt(1), fy)),
                   FMul(FMul(e10, fx), FSub(FInt(1), fy))),
              FMul(FMul(e01, FSub(FInt(1), fx)), fy)),
         FMul(FMul(e11, fx), fy))

\* e00 * (1 - fx) * (1 - fy) + e10 * fx * (1 - fy) + e01 * (1 - fx) * fy
\* + e11 * fx * fy, evaluated left to right.
Bilinear(e00, e10, e01, e11, fx, fy) ==
    FAdd(FAdd(FAdd(FMul(FMul(e00, FSub(FInt(1), fx)), FSub(FInt(1), fy)),
                   FMul(FMul(e10, fx), FSub(FInt(1), fy))),
              FMul(FMul(e01, FSub(FInt(1), fx)), fy)),
         FMul(FMul(e11, fx), fy))

\* The body of the two loops for the vertex at (row, col).
SampleVertex(t, sub, row, col) ==
    LET px == PxOf(col, sub, t.width)
        py == PxOf(row, sub, t.height)
        x0 == Floor(px)
        y0 == Floor(py)
        x1 == X1Of(x0, t.width)
        y1 == X1Of(y0, t.height)
        fx == FSub(px, FInt(x0))
        fy == FSub(py, FInt(y0))
    IN  Bilinear(ReadCell(t.elevations, y0 * t.width + x0),
                 ReadCell(t.elevations, y0 * t.width + x1),
                 ReadCell(t.elevations, y1 * t.width + x0),
                 ReadCell(t.elevations, y1 * t.width + x1),
                 fx, fy)

\* Cell values of the fields given to createTerrainMesh: 0 m, 3 m, 5 m.
MeshChoices == {0, 3 * Scale, 5 * Scale}

MeshInit ==
    /\ WIdle /\ LIdle /\ FIdle /\ tileDim = 1 /\ store = UniformStore(1, Patterns)
    /\ DIdle /\ GIdle /\ HIdle /\ EIdle
    /\ \E w \in 1 .. MaxMeshCells, h \in 1 .. MaxMeshCells :
          /\ w * h <= MaxMeshCells
          /\ terrain \in { [elevations |-> e, width |-> w, height |-> h] :
                              e \in [Cells(w, h) -> MeshChoices] }
    /\ subdivisions \in 1 .. MaxSub
    /\ vertexElevation = <<>>

\* The two loops over the (subdivisions + 1)^2 vertices.
CreateTerrainMesh ==
    /\ terrain # NoTile
    /\ vertexElevation = <<>>
    /\ vertexElevation' =
           [v \in 0 .. ((subdivisions + 1) * (subdivisions + 1) - 1) |->
               SampleVertex(terrain, subdivisions,
                            v \div (subdivisions + 1), v % (subdivisions + 1))]
    /\ UNCHANGED <<wvars, lvars, fvars, svars, rvars, dvars, gvars, hvars, evars, terrain, subdivisions>>

MeshNext == CreateTerrainMesh

SpecMesh == MeshInit /\ [][MeshNext]_vars

\* ------------------------------------------- latLonToTile and tileBounds
\* The doubles of the longitude arithmetic.  <<m, e>> is the number m * 2^e,
\* with m odd (zero is <<0, 0>>) and |m| < 2^GeoBits: a binary floating-point
\* number with a significand of GeoBits bits instead of 53.  GeoBits is wide
\* enough that every tile edge k * 360 / 2^zoom - 180 is such a number, as
\* it is in a double.  Every operation gives the exact result rounded to the
\* nearest such number, ties to even.
GeoBits == MantBits + MaxZoom + 1

RECURSIVE GNorm(_, _)
GNorm(m, e) ==
    IF m = 0 THEN <<0, 0>>
    ELSE IF m % 2 = 0 THEN GNorm(m \div 2, e + 1)
    ELSE <<m, e>>

\* num / den * 2^e for num >= 0 and den > 0, rounded; num / den is either an
\* integer or at least 2^GeoBits.
GRoundAbs(num, den, e) ==
    LET RECURSIVE Shift(_, _)
        Shift(q, k) == IF q < Pow2(GeoBits) THEN k ELSE Shift(q \div 2, k + 1)
        k == Shift(num \div den, 0)
    IN  <<RoundDiv(num, den * Pow2(k)), e + k>>

GRound(num, den, e) ==
    IF num < 0
    THEN LET r == GRoundAbs(0 - num, den, e) IN GNorm(0 - r[1], r[2])
    ELSE LET r == GRoundAbs(num, den, e) IN GNorm(r[1], r[2])

\* a and b as integers in units of 2^e, e the smaller exponent of the two.
GAlign(a, b) ==
    LET e == IF a[2] < b[2] THEN a[2] ELSE b[2]
    IN  <<a[1] * Pow2(a[2] - e), b[1] * Pow2(b[2] - e), e>>

GNeg(a) == <<0 - a[1], a[2]>>
GAdd(a, b) == LET c == GAlign(a, b) IN GRound(c[1] + c[2], 1, c[3])
GSub(a, b) == GAdd(a, GNeg(b))
GMul(a, b) == GRound(a[1] * b[1], 1, a[2] + b[2])
\* a / b for b > 0: the quotient of the significands is taken with enough
\* binary places for the rounding.
GDiv(a, b) ==
    LET n == IF a[1] < 0 THEN 0 - a[1] ELSE a[1]
        RECURSIVE Scaled(_)
        Scaled(k) ==
            IF n = 0 \/ (n * Pow2(k)) \div b[1] >= Pow2(GeoBits) THEN k ELSE Scaled(k + 1)
        k == Scaled(0)
    IN  GRound(a[1] * Pow2(k), b[1], a[2] - b[2] - k)

\* a < b and a <= b
GLt(a, b) == LET c == GAlign(a, b) IN c[1] < c[2]
GLe(a, b) == LET c == GAlign(a, b) IN c[1] <= c[2]

\* The double of an integer.
GInt(n) == GNorm(n, 0)

\* Math.floor
GFloor(a) == IF a[2] >= 0 THEN a[1] * Pow2(a[2]) ELSE a[1] \div Pow2(0 - a[2])

\* The doubles next to a: the next larger and the next smaller one.  Next to
\* zero that is the smallest magnitude of the model.
GTiny == <<1, 0 - GeoBits>>

RECURSIVE GWiden(_, _)
GWiden(m, e) == IF m >= Pow2(GeoBits - 1) THEN <<m, e>> ELSE GWiden(2 * m, e - 1)

GUp(a) == LET w == GWiden(a[1], a[2]) IN GNorm(w[1] + 1, w[2])
GDown(a) ==
    LET w == GWiden(a[1], a[2])
    IN  IF w[1] = Pow2(GeoBits - 1)
        THEN GNorm(2 * w[1] - 1, w[2] - 1)
        ELSE GNorm(w[1] - 1, w[2])

GAbove(a) ==
    IF a[1] = 0 THEN GTiny
    ELSE IF a[1] > 0 THEN GUp(a) ELSE GNeg(GDown(GNeg(a)))
GBelow(a) ==
    IF a[1] = 0 THEN GNeg(GTiny)
    ELSE IF a[1] > 0 THEN GDown(a) ELSE GNeg(GUp(GNeg(a)))

\* Mutant of LonToX: the tile east of the one computed.
LonToXNext(lon, z) ==
    GFloor(GMul(GDiv(GAdd(lon, GInt(180)), GInt(360)), GInt(Pow2(z)))) + 1

\* x = Math.floor(((lon + 180) / 360) * n)
LonToX(lon, z) ==
    GFloor(GMul(GDiv(GAdd(lon, GInt(180)), GInt(360)), GInt(Pow2(z))))

\* (x / n) * 360 - 180
LonEdge(x, z) ==
    GSub(GMul(GDiv(GInt(x), GInt(Pow2(z))), GInt(360)), GInt(180))

\* The longitudes drawn: every tile edge of the deepest zoom, the doubles
\* next to it on either side, and the middle of every tile.
LonChoices ==
    LET edges == { LonEdge(x, MaxZoom) : x \in 0 .. (Pow2(MaxZoom) - 1) }
        mids == { LonEdge(2 * x + 1, MaxZoom + 1) : x \in 0 .. (Pow2(MaxZoom) - 1) }
        near == UNION { {GBelow(E), E, GAbove(E)} : E \in edges }
    IN  { l \in near \cup mids : GLe(GInt(0 - 180), l) /\ GLt(l, GInt(180)) }

\* A latitude is held as <<q, s>>.  q / PosDen is the Web-Mercator position
\* (1 - asinh(tan(latRad)) / PI) / 2 of an exact grid latitude, 0 at the
\* northern limit and 1 at the southern one, and s says where the double
\* lies: on it (0), or next to it to the north (-1) or to the south (1).
\* Latitudes are compared by position: further north is smaller.
\* Only 0 degrees is on the grid latitude itself: all the others are
\* irrational multiples of a degree.
LatChoices ==
    { <<q, t>> : q \in 1 .. (PosDen - 1), t \in {0 - 1, 1} } \cup {<<PosDen \div 2, 0>>}

PosLt(a, b) == a[1] < b[1] \/ (a[1] = b[1] /\ a[2] < b[2])
PosLe(a, b) == a = b \/ PosLt(a, b)

\* y = Math.floor((1 - Math.asinh(Math.tan(latRad)) / Math.PI) / 2 * n), as
\* the set of values the floating-point evaluation can give.  tan, asinh and
\* the arithmetic around them are each off by a rounding error, so that a
\* double next to the edge between tiles k - 1 and k can come out on either
\* side of it.  At 0 degrees every step is exact, tan(0) = 0 and
\* asinh(0) = 0, and next to 0 degrees 1 - asinh(..) / PI rounds to 1.
LatToY(lat, z) ==
    LET f == lat[1] * Pow2(z)
    IN  IF f % PosDen = 0 /\ 2 * lat[1] # PosDen
        THEN {(f \div PosDen) - 1, f \div PosDen}
        ELSE {f \div PosDen}

\* Math.atan(Math.sinh(Math.PI * (1 - (2 * y) / n))) * (180 / Math.PI), as
\* the set of values the floating-point evaluation can give: the doubles at
\* and next to the edge.  y = n / 2 gives sinh(0) = 0 and atan(0) = 0 exactly.
LatEdge(y, z) ==
    LET q == (y * PosDen) \div Pow2(z)
    IN  IF 2 * y = Pow2(z)
        THEN {<<q, 0>>}
        ELSE { <<q, t>> : t \in {0 - 1, 0, 1} }

GInit ==
    /\ WIdle /\ LIdle /\ FIdle /\ tileDim = 1 /\ store = UniformStore(1, Patterns)
    /\ DIdle /\ MIdle /\ HIdle /\ EIdle
    /\ point \in { [lat |-> a, lon |-> l, zoom |-> z] :
                      a \in LatChoices, l \in LonChoices, z \in 0 .. MaxZoom }
    /\ tileXY = NoXY
    /\ bounds = NoBounds

\* latLonToTile, lines 16-20
LatLonToTile ==
    /\ tileXY = NoXY
    /\ \E y \in LatToY(point.lat, point.zoom) :
          tileXY' = [x |-> LonToX(point.lon, point.zoom), y |-> y]
    /\ UNCHANGED <<wvars, lvars, fvars, svars, rvars, dvars, mvars, hvars, evars, point, bounds>>

\* tileBounds, lines 193-198, of the tile returned
TileBounds ==
    /\ tileXY # NoXY
    /\ bounds = NoBounds
    /\ \E north \in LatEdge(tileXY.y, point.zoom),
          south \in LatEdge(tileXY.y + 1, point.zoom) :
          bounds' = [lonWest |-> LonEdge(tileXY.x, point.zoom),
                     lonEast |-> LonEdge(tileXY.x + 1, point.zoom),
                     latNorth |-> north, latSouth |-> south]
    /\ UNCHANGED <<wvars, lvars, fvars, svars, rvars, dvars, mvars, hvars, evars, point, tileXY>>

GNext == LatLonToTile \/ TileBounds

SpecBounds == GInit /\ [][GNext]_vars

\* ------------------------------------------------------- downloadHeightmap
\* a / b for integers 0 <= a and 0 < b, as a double.
GQuot(a, b) == GDiv(<<a, 0>>, <<b, 0>>)

\* maxElevation - minElevation || 1, in 1/Scale m.  A field without a
\* comparable cell has min = Infinity and max = -Infinity: -Infinity.
RangeOf(min, max) ==
    IF min = PosInf \/ max = NegInf THEN NegInf
    ELSE IF max - min = 0 THEN Scale
    ELSE max - min

\* Mutant of Normalized: the factor is 256.
Normalized256(e, min, range) ==
    IF e = NaN \/ range = NegInf THEN NaN
    ELSE GFloor(GMul(GQuot(e - min, range), GInt(256)))

\* Math.floor(((elevations[i] - minElevation) / range) * 255).  The
\* difference of two Float32 values is exact in a double; the quotient and
\* the product are rounded.
Normalized(e, min, range) ==
    IF e = NaN \/ range = NegInf THEN NaN
    ELSE GFloor(GMul(GQuot(e - min, range), GInt(255)))

\* A store into the Uint8ClampedArray outputData.data.
ToUint8Clamped(v) ==
    IF v = NaN THEN 0
    ELSE IF v < 0 THEN 0
    ELSE IF v > 255 THEN 255
    ELSE v

\* outputData.data after the loop of lines 303-310.
HeightmapOf(r) ==
    LET range == RangeOf(r.minElevation, r.maxElevation)
        n == Cardinality(DOMAIN r.elevations)
    IN  [k \in 0 .. (4 * n - 1) |->
            IF k % 4 = 3 THEN 255
            ELSE ToUint8Clamped(
                     Normalized(r.elevations[k \div 4], r.minElevation, range))]

\* downloadHeightmap(result) on the TerrainResult a call has returned, as
\* fetchAndDownload does.
DownloadHeightmap ==
    /\ fpc \in {"done", "tile_done"}
    /\ outputData = NoOutput
    /\ outputData' = HeightmapOf(outcome[Len(outcome)].result)
    /\ UNCHANGED <<wvars, lvars, fvars, rvars, svars, dvars, mvars, gvars, evars>>

HNext == ANext \/ DownloadHeightmap

SpecDownload == FInit /\ [][HNext]_vars

\* ========================================================================
\* Properties
\* ========================================================================

\* ---- applyWaterDepth (SpecWater)
Land(i) == input[i] > 0
Water(i) == input[i] <= 0

\* C1: after water-depth synthesis has completed, every cell that was water
\* at ingestion (input elevation <= 0) has elevation <= 0, also next to land.
C1_WaterAtOrBelowSeaLevel ==
    wpc = "done" => \A i \in DOMAIN input : Water(i) => elevations[i] <= 0

\* Chebyshev (8-neighbour) distance between cells i and j of a grid w wide.
Abs(a) == IF a < 0 THEN -a ELSE a
ChebDist(i, j, w) ==
    IF Abs(XOf(i, w) - XOf(j, w)) >= Abs(YOf(i, w) - YOf(j, w))
    THEN Abs(XOf(i, w) - XOf(j, w))
    ELSE Abs(YOf(i, w) - YOf(j, w))

\* No land cell lies within Chebyshev distance k of cell i.
NoLandWithin(i, k) ==
    \A j \in DOMAIN input : Land(j) => ChebDist(i, j, width) > k

\* C1 as amended: every water cell is at or below sea level after masking
\* and after every deepening pass, and after k smoothing passes every water
\* cell with no land cell within Chebyshev distance k is; so when the
\* synthesis has completed, every water cell with no land cell within
\* distance smoothPasses is at or below sea level.
C1_WaterAtOrBelowSeaLevelAwayFromLand ==
    /\ wpc = "deepen" =>
          \A i \in DOMAIN input : Water(i) => elevations[i] <= 0
    /\ wpc = "smooth" =>
          \A i \in DOMAIN input :
              (Water(i) /\ NoLandWithin(i, pass)) => elevations[i] <= 0
    /\ wpc = "done" =>
          \A i \in DOMAIN input :
              (Water(i) /\ NoLandWithin(i, smoothPasses)) => elevations[i] <= 0

\* Three or more smoothing passes have run on a field with land: a water
\* cell just out of their reach from the land is below sea level, and a
\* water cell nearer to the land has come out above it.
C1_Witness ==
    /\ wpc = "smooth"
    /\ pass >= 3
    /\ passes >= 1
    /\ \E i \in DOMAIN input :
          /\ Water(i) /\ NoLandWithin(i, pass) /\ ~NoLandWithin(i, pass + 1)
          /\ elevations[i] < 0
    /\ \E i \in DOMAIN input : Water(i) /\ elevations[i] > 0

\* C2: after masking, after every deepening pass and after every smoothing
\* pass, each land cell (input elevation > 0) holds its pre-synthesis value.
C2_LandUnchanged ==
    wpc \in {"deepen", "smooth", "done"} =>
        /\ DOMAIN elevations = DOMAIN input
        /\ \A i \in DOMAIN input : Land(i) => elevations[i] = input[i]

\* A finished synthesis that deepened and smoothed a water cell next to a
\* land cell.
C2_Witness ==
    /\ wpc = "done"
    /\ passes > 0
    /\ \E i \in DOMAIN input :
          /\ Land(i)
          /\ \E j \in Neighbours(i, width, height) :
                Water(j) /\ elevations[j] # 0 /\ elevations[j] # input[j]

\* C9: after k deepening passes no water cell is below -(k * step), so each
\* pass lowers a cell at most once, and after all of them no water cell is
\* below -(passes * step).
C9_DeepeningBound ==
    /\ wpc = "deepen" =>
          \A i \in DOMAIN input : Water(i) => elevations[i] >= -(pass * step)
    /\ (wpc = "smooth" /\ pass = 0) =>
          \A i \in DOMAIN input : Water(i) => elevations[i] >= -(passes * step)

\* The deepening passes are over and a water cell went down in every one.
C9_Witness ==
    /\ wpc = "smooth" /\ pass = 0
    /\ passes >= 2
    /\ \E i \in DOMAIN input : Water(i) /\ elevations[i] = -(passes * step)
    /\ \E i \in DOMAIN input : Water(i) /\ elevations[i] > -(passes * step)

\* C10: the mask is the classification of the input (water iff input <= 0)
\* after masking, after every deepening pass and after every smoothing pass.
C10_MaskFixed ==
    wpc \in {"deepen", "smooth", "done"} =>
        /\ DOMAIN isWater = DOMAIN input
        /\ \A i \in DOMAIN input : isWater[i] = Water(i)

\* Smoothing has lifted a water cell above sea level (its value alone would
\* now classify it as land) and lowered others, and the mask still has it.
C10_Witness ==
    /\ wpc = "done"
    /\ \E i \in DOMAIN input : isWater[i] /\ elevations[i] > 0
    /\ \E i \in DOMAIN input : isWater[i] /\ elevations[i] < 0
    /\ \E i \in DOMAIN input : ~isWater[i]

\* Some land cell is one of the 8 cells around cell i.
LandNextTo(i) ==
    \E j \in DOMAIN input : Land(j) /\ ChebDist(i, j, width) = 1

\* C11: a water cell with at least one land cell among its 8 neighbours is
\* at exactly 0 after masking and after every deepening pass, the last one
\* included: no deepening pass lowers it.  So the sea-level corner of a 4x4
\* field that is 100 m everywhere else stays at 0.
C11_ShoreHeld ==
    (wpc = "deepen" \/ (wpc = "smooth" /\ pass = 0)) =>
        /\ \A i \in DOMAIN input : (Water(i) /\ LandNextTo(i)) => elevations[i] = 0
        /\ input \in CornerFields =>
              \A i \in {0, 3, 12, 15} : input[i] = 0 => elevations[i] = 0

\* All deepening passes have run: a water cell whose only land neighbours are
\* diagonal ones is still at 0 while a water cell away from the land has
\* gone down.
C11_Witness ==
    /\ wpc = "smooth" /\ pass = 0
    /\ passes >= 2
    /\ \E i \in DOMAIN input :
          /\ Water(i) /\ LandNextTo(i) /\ elevations[i] = 0
          /\ \A j \in DOMAIN input :
                (Land(j) /\ ChebDist(i, j, width) = 1) =>
                    (XOf(i, width) # XOf(j, width) /\ YOf(i, width) # YOf(j, width))
    /\ \E k \in DOMAIN input : Water(k) /\ elevations[k] < 0

\* A deepening pass has run on the 4x4 field with one sea-level corner.
C11_CornerReached ==
    /\ input \in CornerFields
    /\ wpc = "deepen" /\ pass >= 1

\* ---- the 2x2 group (SpecLocate)

\* C6: each of the four requested tiles is a valid slippy-map index,
\* 0 <= x < 2^zoom and 0 <= y < 2^zoom.
C6_RequestedTilesValid ==
    fpc = "located" =>
        \A i \in Slots : ValidTile(zoom, SlotX(startX, i), SlotY(startY, i))

\* C7: the target lies in the central half of the stitched square on each
\* axis: (fracX - startX) / 2 and (fracY - startY) / 2 are in [0.25, 0.75).
\* With d = frac - start in 1/PosDen of a tile that is
\* PosDen <= 2 * d < 3 * PosDen.
C7_TargetInCentralHalf ==
    fpc = "located" =>
        LET dx == Frac(lonq, zoom) - startX * PosDen
            dy == Frac(latq, zoom) - startY * PosDen
        IN  /\ PosDen <= 2 * dx /\ 2 * dx < 3 * PosDen
            /\ PosDen <= 2 * dy /\ 2 * dy < 3 * PosDen

\* A target whose fractional remainder is exactly 0.5 on the x axis and
\* below 0.5 on the y axis.
C7_Witness ==
    /\ fpc = "located"
    /\ zoom >= 1
    /\ 2 * (Frac(lonq, zoom) - tileX * PosDen) = PosDen
    /\ startX = tileX
    /\ 2 * (Frac(latq, zoom) - tileY * PosDen) < PosDen
    /\ startY = tileY - 1

\* ---- fetchTileAtLocation (Spec)
Failed == { i \in Slots : loads[i].st = "failed" }
Loaded == { i \in Slots : loads[i].st = "loaded" }
Pending == { i \in Slots : loads[i].st = "pending" }
Results == { k \in 1 .. Len(outcome) : outcome[k].kind = "result" }
Errors == { k \in 1 .. Len(outcome) : outcome[k].kind = "error" }

\* C3: once one of the four loads has failed, whatever the other loads do,
\* the call fails, the stitching and the water-depth synthesis are never
\* run, and no TerrainResult is returned.
C3_AllOrNothing ==
    Failed # {} =>
        /\ fpc \in {"await", "failed"}
        /\ fpc = "await" => joined.st = "rejected"
        /\ stitched = <<>> /\ writes = <<>>
        /\ wpc = "off"
        /\ Results = {}

\* The call has failed on one load while the three others went on to
\* complete successfully.
C3_Witness ==
    /\ fpc = "failed"
    /\ Cardinality(Failed) = 1
    /\ Cardinality(Loaded) = 3

\* C4: the await is reached with all four loads issued, no load completes
\* before all four are issued, and the stitching starts only with all four
\* loads completed successfully.
C4_FanOutFanIn ==
    /\ fpc = "await" => issued = 4 /\ \A i \in Slots : loads[i].st # "none"
    /\ (Loaded \cup Failed) # {} => issued = 4
    /\ fpc \in {"stitched", "process", "done"} => Loaded = Slots
    /\ stitched # <<>> => Loaded = Slots

\* The stitching has started.
C4_Witness ==
    /\ fpc = "stitched"
    /\ Loaded = Slots
    /\ stitched # <<>>

\* C5: when a load fails the caller observes one failure, raised at the first
\* failure while the other loads may still be in flight, and it names the
\* z/x/y of the tile whose load failed first.
C5_SingleFailure ==
    /\ Len(outcome) <= 1
    /\ failLog # <<>> =>
          LET f == failLog[1]
              t == <<zoom, loads[f].x, loads[f].y>>
          IN  /\ fpc \in {"await", "failed"}
              /\ fpc = "await" =>
                    /\ Len(failLog) = 1
                    /\ joined = [st |-> "rejected", reason |-> t]
                    /\ outcome = <<>>
              /\ fpc = "failed" => outcome = <<[kind |-> "error", tile |-> t]>>
    /\ Errors # {} => failLog # <<>>

\* The caller has the failure of the top-right tile while the three other
\* loads are still in flight.
C5_Witness ==
    /\ fpc = "failed"
    /\ failLog = <<1>>
    /\ Pending = Slots \ {1}
    /\ outcome = <<[kind |-> "error", tile |-> <<zoom, startX + 1, startY>>]>>

\* C8: every source tile is in its quadrant of the stitched grid, cell for
\* cell, every stitched cell was stored exactly once, and four tiles of 10 m
\* everywhere give a result of 10 m everywhere with min = max = 10 m.
C8_StitchVerbatim ==
    /\ fpc = "stitched" =>
          LET T == loads[0].tile.width
          IN  /\ DOMAIN stitched = 0 .. (4 * T * T - 1)
              /\ \A i \in Slots : \A row \in 0 .. (T - 1) : \A col \in 0 .. (T - 1) :
                    stitched[((i \div 2) * T + row) * (2 * T) + (i % 2) * T + col]
                        = loads[i].tile.elevations[row * T + col]
              /\ \A k \in DOMAIN writes : writes[k] = 1
    /\ (/\ fpc = "done"
        /\ \A i \in Slots : \A k \in DOMAIN loads[i].tile.elevations :
              loads[i].tile.elevations[k] = 10 * Scale) =>
          /\ Len(outcome) = 1
          /\ outcome[1].kind = "result"
          /\ \A k \in DOMAIN outcome[1].result.elevations :
                outcome[1].result.elevations[k] = 10 * Scale
          /\ outcome[1].result.minElevation = 10 * Scale
          /\ outcome[1].result.maxElevation = 10 * Scale
          /\ outcome[1].result.width = 2 * loads[0].tile.width
          /\ outcome[1].result.height = 2 * loads[0].tile.width

\* Four 2x2 tiles whose sixteen cells all differ have been stitched.
C8_Witness ==
    /\ fpc = "stitched"
    /\ tileDim = 2
    /\ \A i, j \in Slots : \A a, b \in 0 .. 3 :
          (i # j \/ a # b) => loads[i].tile.elevations[a] # loads[j].tile.elevations[b]

\* Four 2x2 tiles of 10 m everywhere have given their result.
C8_UniformReached ==
    /\ fpc = "done"
    /\ tileDim = 2
    /\ \A i \in Slots : \A k \in 0 .. 3 : loads[i].tile.elevations[k] = 10 * Scale

\* ---- TerrainResult (SpecApi: fetchTile and fetchTileAtLocation)

\* C12: in every TerrainResult returned by fetchTile or fetchTileAtLocation,
\* minElevation <= elevations[i] <= maxElevation for every cell, both bounds
\* are the value of some cell, and the cells are the buffer as water-depth
\* synthesis left it (not the decoded values).
C12_BoundsHold ==
    \A k \in Results :
        LET r == outcome[k].result
        IN  /\ wpc = "done"
            /\ r.elevations = elevations
            /\ \A i \in DOMAIN r.elevations :
                  r.minElevation <= r.elevations[i] /\ r.elevations[i] <= r.maxElevation
            /\ \E i \in DOMAIN r.elevations : r.elevations[i] = r.minElevation
            /\ \E i \in DOMAIN r.elevations : r.elevations[i] = r.maxElevation

\* A result whose minimum is above a decoded value (synthesis raised the
\* lowest cell) and whose maximum is not in its first cell.
C12_Witness ==
    /\ fpc = "done"
    /\ Results # {}
    /\ \E i \in DOMAIN input : input[i] < outcome[1].result.minElevation
    /\ outcome[1].result.elevations[0] < outcome[1].result.maxElevation

\* fetchTile has returned a result whose minimum is above a decoded value.
C12_TileReached ==
    /\ fpc = "tile_done"
    /\ Results # {}
    /\ \E i \in DOMAIN input : input[i] < outcome[1].result.minElevation

\* ---- TerrainResult on a store of images of any size (SpecAnyStore)

\* C13: every decoded tile, every buffer handed to processElevations and
\* every TerrainResult holds width * height elevations, and a result of
\* fetchTileAtLocation is square with side twice the width of the first tile.
C13_BufferShape ==
    /\ \A i \in Loaded :
          DOMAIN loads[i].tile.elevations
              = 0 .. (loads[i].tile.width * loads[i].tile.height - 1)
    /\ wpc # "off" => DOMAIN elevations = 0 .. (width * height - 1)
    /\ \A k \in Results :
          LET r == outcome[k].result
          IN  /\ DOMAIN r.elevations = 0 .. (r.width * r.height - 1)
              /\ fpc = "done" =>
                    /\ r.width = 2 * loads[0].tile.width
                    /\ r.height = 2 * loads[0].tile.width

\* fetchTileAtLocation has returned a result stitched from four tiles that
\* are wider than high.
C13_Witness ==
    /\ fpc = "done"
    /\ Results # {}
    /\ outcome[1].result.width = 4
    /\ \A i \in Slots : loads[i].tile.width = 2 /\ loads[i].tile.height = 1

\* fetchTile has returned a result that is higher than wide.
C13_TileReached ==
    /\ fpc = "tile_done"
    /\ Results # {}
    /\ outcome[1].result.width < outcome[1].result.height

\* C14: the stitching runs, and a TerrainResult is returned, only when the
\* four decoded tiles are square and of one size; otherwise the call fails.
C14_MismatchIsFatal ==
    /\ fpc \in {"stitched", "process"} =>
          \A i \in Slots :
              /\ loads[i].tile.width = loads[0].tile.width
              /\ loads[i].tile.height = loads[0].tile.width
    /\ (fpc = "done" /\ Results # {}) =>
          \A i \in Slots :
              /\ loads[i].tile.width = loads[0].tile.width
              /\ loads[i].tile.height = loads[0].tile.width

\* fetchTileAtLocation has returned a result stitched from a 2x2 first tile
\* and a 1x1 tile: cells of the result are NaN.
C14_NaNReached ==
    /\ fpc = "done"
    /\ Results # {}
    /\ loads[0].tile.width = 2 /\ loads[0].tile.height = 2
    /\ \E i \in Slots : loads[i].tile.width = 1 /\ loads[i].tile.height = 1
    /\ \E k \in DOMAIN outcome[1].result.elevations : outcome[1].result.elevations[k] = NaN

\* ---- loadTileElevations on its own (SpecDecode)

\* C15: the decoder gives one elevation per pixel, width * height of them,
\* and the elevation of pixel i is R * 256 + G + B / 256 - 32768 of that
\* pixel's own bytes, whatever its A byte and whatever the other pixels are:
\* (128, 0, 0) gives 0 and (0, 0, 0) gives -32768.
C15_DecodePerPixel ==
    decoded # NoTile =>
        /\ decoded.width = imageData.width /\ decoded.height = imageData.height
        /\ DOMAIN decoded.elevations = 0 .. (imageData.width * imageData.height - 1)
        /\ \A i \in DOMAIN decoded.elevations :
              LET R == imageData.data[4 * i]
                  G == imageData.data[4 * i + 1]
                  B == imageData.data[4 * i + 2]
              IN  /\ decoded.elevations[i] = Scale * (R * 256 + G - 32768) + B
                  /\ (R = 128 /\ G = 0 /\ B = 0) => decoded.elevations[i] = 0
                  /\ (R = 0 /\ G = 0 /\ B = 0) => decoded.elevations[i] = -32768 * Scale

\* A decoded two-pixel image: the second pixel is (128, 0, 0) with A = 0
\* behind a first pixel (0, 0, 0) with A = 255.
C15_Witness ==
    /\ decoded # NoTile
    /\ imageData.width * imageData.height = 2
    /\ imageData.data[0] = 0 /\ imageData.data[1] = 0 /\ imageData.data[2] = 0
    /\ imageData.data[3] = 255
    /\ imageData.data[4] = 128 /\ imageData.data[5] = 0 /\ imageData.data[6] = 0
    /\ imageData.data[7] = 0
    /\ decoded.elevations[0] = -32768 * Scale
    /\ decoded.elevations[1] = 0

\* ---- Game.createTerrainMesh (SpecMesh)
Vertices == DOMAIN vertexElevation
RowOf(v) == v \div (subdivisions + 1)
ColOf(v) == v % (subdivisions + 1)

\* px, py, x0, y0, fx, fy as the code computes them for vertex v.
PxV(v) == PxOf(ColOf(v), subdivisions, terrain.width)
PyV(v) == PxOf(RowOf(v), subdivisions, terrain.height)
X0V(v) == Floor(PxV(v))
Y0V(v) == Floor(PyV(v))
FxV(v) == PxV(v) - FInt(X0V(v))
FyV(v) == PyV(v) - FInt(Y0V(v))

\* The cells around vertex v: columns x0 and min(x0 + 1, elevW - 1), rows y0
\* and min(y0 + 1, elevH - 1).
Around(v) ==
    { terrain.elevations[y * terrain.width + x] :
        x \in { c \in {X0V(v), X0V(v) + 1} : c <= terrain.width - 1 },
        y \in { r \in {Y0V(v), Y0V(v) + 1} : r <= terrain.height - 1 } }

MinOf(S) == CHOOSE a \in S : \A b \in S : a <= b
MaxOf(S) == CHOOSE a \in S : \A b \in S : a >= b

\* C16: at every vertex whose computed field coordinates px and py are both
\* integers the sampled elevation is the stored elevations[py * elevW + px],
\* and the vertices of the last column and of the last row have px = elevW - 1
\* and py = elevH - 1, where the neighbour index is clamped.
C16_ExactOnGrid ==
    \A v \in Vertices :
        /\ (FxV(v) = 0 /\ FyV(v) = 0) =>
              vertexElevation[v] = terrain.elevations[Y0V(v) * terrain.width + X0V(v)]
        /\ ColOf(v) = subdivisions => (X0V(v) = terrain.width - 1 /\ FxV(v) = 0)
        /\ RowOf(v) = subdivisions => (Y0V(v) = terrain.height - 1 /\ FyV(v) = 0)

\* A mesh over a field three cells wide whose middle vertex falls on the
\* middle cell, which is unlike its neighbours, and whose last vertex falls on
\* the last cell.
C16_Witness ==
    /\ vertexElevation # <<>>
    /\ terrain.width = 3 /\ terrain.height = 1 /\ subdivisions = 2
    /\ terrain.elevations[0] # terrain.elevations[1]
    /\ terrain.elevations[2] # terrain.elevations[1]
    /\ FxV(1) = 0 /\ X0V(1) = 1
    /\ vertexElevation[1] = terrain.elevations[1]
    /\ vertexElevation[2] = terrain.elevations[2]

\* C17: at every vertex the sampled elevation is between the minimum and the
\* maximum of the four cells around it, and among four equal cells it is
\* exactly their value.
C17_NoOvershoot ==
    \A v \in Vertices :
        /\ MinOf(Around(v)) <= vertexElevation[v]
        /\ vertexElevation[v] <= MaxOf(Around(v))

\* One unit in the last place of a double of magnitude |a|.
UlpOf(a) ==
    LET RECURSIVE Shift(_, _)
        Shift(q, e) == IF q < Pow2(MantBits) THEN e ELSE Shift(q \div 2, e + 1)
    IN  Pow2(Shift(Abs(a), 0))

\* fx and fy of vertex v are each 0 or 0.5.
OnHalves(v) == FxV(v) \in {0, Scale \div 2} /\ FyV(v) \in {0, Scale \div 2}

\* C17 as amended: at every vertex the sampled elevation is between the
\* minimum and the maximum of the four cells around it up to the rounding
\* error of the evaluation, 8 units in the last place of the largest of the
\* four magnitudes; it is between them exactly where fx and fy are each 0 or
\* 0.5, so at a grid point and at the midpoint of four equal cells it is
\* exactly their value.
C17_NoOvershootUpToRounding ==
    \A v \in Vertices :
        LET lo == MinOf(Around(v))
            hi == MaxOf(Around(v))
            err == 8 * UlpOf(MaxOf({Abs(lo), Abs(hi)}))
        IN  /\ lo - err <= vertexElevation[v]
            /\ vertexElevation[v] <= hi + err
            /\ OnHalves(v) => (lo <= vertexElevation[v] /\ vertexElevation[v] <= hi)

\* A mesh over four equal cells of 3 m: the vertex at their midpoint has
\* exactly 3 m, a vertex a third of the way along has not.
C17_Witness ==
    /\ vertexElevation # <<>>
    /\ terrain.width = 2 /\ terrain.height = 2
    /\ \A i \in DOMAIN terrain.elevations : terrain.elevations[i] = 3 * Scale
    /\ \E v \in Vertices : vertexElevation[v] # 3 * Scale

\* A mesh whose middle vertex is the midpoint of four equal cells of 3 m.
C17_MidpointReached ==
    /\ vertexElevation # <<>>
    /\ terrain.width = 2 /\ terrain.height = 2 /\ subdivisions = 2
    /\ \A i \in DOMAIN terrain.elevations : terrain.elevations[i] = 3 * Scale
    /\ FxV(4) = Scale \div 2 /\ FyV(4) = Scale \div 2
    /\ vertexElevation[4] = 3 * Scale

\* ---- latLonToTile and tileBounds (SpecBounds)

\* C18 as stated: the bounds of the tile returned for a point contain the
\* point, lonWest <= lon < lonEast and latSouth < lat <= latNorth.
C18_BoundsContainPoint ==
    bounds # NoBounds =>
        /\ GLe(bounds.lonWest, point.lon) /\ GLt(point.lon, bounds.lonEast)
        /\ PosLe(bounds.latNorth, point.lat) /\ PosLt(point.lat, bounds.latSouth)

\* Two units in the last place of a double between 256 and 512, the
\* largest that lon + 180 and the tile edges plus 180 get.
LonSlack == <<1, 10 - GeoBits>>

\* C18 amended: the bounds contain the point up to floating-point rounding.
\* lon < lonEast holds exactly; lonWest <= lon holds up to two units in
\* the last place of lon + 180; and the latitude is in the closed interval
\* of the tile's two exact edge latitudes, so that a latitude next to an
\* edge belongs to one of the two tiles that meet there.  A point farther
\* than that from every edge is strictly inside.
C18_ContainsUpToRounding ==
    bounds # NoBounds =>
        /\ GLe(GSub(bounds.lonWest, LonSlack), point.lon)
        /\ GLt(point.lon, bounds.lonEast)
        /\ bounds.latNorth[1] <= point.lat[1]
        /\ point.lat[1] <= bounds.latSouth[1]
        /\ bounds.latSouth[1] = bounds.latNorth[1] + PosDen \div Pow2(point.zoom)
        /\ (point.lat[1] * Pow2(point.zoom)) % PosDen # 0 =>
               /\ PosLe(bounds.latNorth, point.lat)
               /\ PosLt(point.lat, bounds.latSouth)

\* A longitude next to a tile edge on its west side was given the tile east
\* of the edge, and a latitude next to an edge on its south side was given
\* the tile north of the edge.
C18_Witness ==
    /\ bounds # NoBounds
    /\ point.zoom >= 1
    /\ point.lon = GBelow(bounds.lonWest)
    /\ point.lat[2] = 1
    /\ point.lat[1] = bounds.latSouth[1]

\* A point in the middle of its tile on both axes.
C18_MiddleReached ==
    /\ bounds # NoBounds
    /\ point.zoom = MaxZoom
    /\ GAdd(bounds.lonWest, bounds.lonEast) = GMul(GInt(2), point.lon)
    /\ bounds.latNorth[1] < point.lat[1] /\ point.lat[1] < bounds.latSouth[1]

\* ---- downloadHeightmap (SpecDownload)

\* What the loop computes for cell i of the TerrainResult last returned.
LastResult == outcome[Len(outcome)].result
NormalizedOf(i) ==
    Normalized(LastResult.elevations[i], LastResult.minElevation,
               RangeOf(LastResult.minElevation, LastResult.maxElevation))

\* C19: normalized is an integer in [0, 255] for every cell and is what the
\* three colour bytes of the cell are; a cell at minElevation gives 0, a
\* cell at maxElevation gives 255 when max > min, and on a flat field every
\* cell gives 0.
C19_ByteRange ==
    outputData # NoOutput =>
        /\ DOMAIN outputData = 0 .. (4 * Cardinality(DOMAIN LastResult.elevations) - 1)
        /\ \A i \in DOMAIN LastResult.elevations :
              /\ NormalizedOf(i) \in 0 .. 255
              /\ \A c \in 0 .. 2 : outputData[4 * i + c] = NormalizedOf(i)
              /\ outputData[4 * i + 3] = 255
              /\ LastResult.elevations[i] = LastResult.minElevation =>
                     NormalizedOf(i) = 0
              /\ (/\ LastResult.elevations[i] = LastResult.maxElevation
                  /\ LastResult.maxElevation > LastResult.minElevation) =>
                     NormalizedOf(i) = 255
              /\ LastResult.maxElevation = LastResult.minElevation =>
                     NormalizedOf(i) = 0

\* A stitched field of water and land was exported: black on the water,
\* which is the minimum, white at the maximum, grey in between.
C19_Witness ==
    /\ outputData # NoOutput
    /\ fpc = "done"
    /\ LastResult.maxElevation > LastResult.minElevation
    /\ \E i, j, k \in DOMAIN LastResult.elevations :
          /\ input[i] < 0 /\ outputData[4 * i] = 0
          /\ outputData[4 * j] = 255
          /\ outputData[4 * k] \in 1 .. 254

\* A flat field below sea level was exported.
C19_FlatReached ==
    /\ outputData # NoOutput
    /\ LastResult.maxElevation = LastResult.minElevation
    /\ LastResult.minElevation < 0
    /\ \A i \in DOMAIN LastResult.elevations : outputData[4 * i] = 0

\* ---- one request after the other (SpecRepeat)

\* Invocations that have issued all they will: all of them, or all but the
\* one under way.
CallsBefore == IF fpc = "idle" THEN calls ELSE calls - 1

\* C20: every invocation issues exactly four image requests, the k-th for
\* the k-th coordinate of its 2x2 group (tl, tr, bl, br), whatever was
\* requested before: the log holds four requests per earlier invocation and
\* `issued` of the one under way, nothing is added once the four are out,
\* also not after a load has failed.
C20_NoRetryNoCache ==
    /\ Len(urlLog) = 4 * CallsBefore + (IF fpc = "idle" THEN 0 ELSE issued)
    /\ fpc \notin {"idle", "issue"} => issued = 4
    /\ \A k \in 1 .. Len(urlLog) :
          LET c == ((k - 1) \div 4) + 1
              j == (k - 1) % 4
              first == urlLog[4 * (c - 1) + 1]
          IN  urlLog[k] = <<c, first[2], first[3] + (j % 2), first[4] + (j \div 2)>>
    /\ (fpc # "idle" /\ issued >= 1) =>
          urlLog[4 * CallsBefore + 1] = <<calls, zoom, startX, startY>>

\* The first request returned a result, and the second request, for the
\* same four tiles, has requested all four again and has seen a load fail.
C20_Witness ==
    /\ calls = 2
    /\ fpc = "failed"
    /\ Len(outcome) = 2 /\ outcome[1].kind = "result" /\ outcome[2].kind = "error"
    /\ Len(urlLog) = 8
    /\ \A k \in 1 .. 4 :
          /\ urlLog[k + 4][2] = urlLog[k][2]
          /\ urlLog[k + 4][3] = urlLog[k][3]
          /\ urlLog[k + 4][4] = urlLog[k][4]

\* A load has failed, the other three have come in or failed after it, and
\* the request has stayed at its four image requests.
C20_FailureReached ==
    /\ calls = 1
    /\ fpc = "failed"
    /\ \A i \in Slots : loads[i].st \in {"loaded", "failed"}
    /\ Len(urlLog) = 4

\* ---- the cells the sampler reads (SpecMesh)
X1V(v) == X1Of(X0V(v), terrain.width)
Y1V(v) == X1Of(Y0V(v), terrain.height)
LastVertex == (subdivisions + 1) * (subdivisions + 1) - 1

\* C27: for every vertex of the mesh the sampler's indices satisfy
\* 0 <= x0 <= x1 <= elevW - 1 and 0 <= y0 <= y1 <= elevH - 1, so the four
\* cells it reads are cells of the buffer; the first vertex reads cell (0, 0)
\* and takes its value, the last reads cell (elevW - 1, elevH - 1) and takes
\* its value.
C27_SamplerInBounds ==
    vertexElevation # <<>> =>
        /\ \A v \in Vertices :
              /\ 0 <= X0V(v) /\ X0V(v) <= X1V(v) /\ X1V(v) <= terrain.width - 1
              /\ 0 <= Y0V(v) /\ Y0V(v) <= Y1V(v) /\ Y1V(v) <= terrain.height - 1
              /\ \A x \in {X0V(v), X1V(v)}, y \in {Y0V(v), Y1V(v)} :
                    y * terrain.width + x \in DOMAIN terrain.elevations
              /\ vertexElevation[v] # NaN
        /\ X0V(0) = 0 /\ Y0V(0) = 0
        /\ vertexElevation[0] = terrain.elevations[0]
        /\ X0V(LastVertex) = terrain.width - 1 /\ Y0V(LastVertex) = terrain.height - 1
        /\ vertexElevation[LastVertex] = terrain.elevations[terrain.width * terrain.height - 1]

\* A mesh of 3 subdivisions over a 2 by 2 field with unlike corners: the
\* first vertex has the first cell's value, the last the last cell's, and
\* the last column and row are sampled with the neighbour index clamped.
C27_Witness ==
    /\ vertexElevation # <<>>
    /\ terrain.width = 2 /\ terrain.height = 2 /\ subdivisions = 3
    /\ terrain.elevations[0] # terrain.elevations[3]
    /\ vertexElevation[0] = terrain.elevations[0]
    /\ vertexElevation[LastVertex] = terrain.elevations[3]
    /\ X0V(LastVertex) = 1 /\ X1V(LastVertex) = 1 /\ Y1V(LastVertex) = 1
    /\ X0V(5) = 0 /\ X1V(5) = 1 /\ Y0V(5) = 0 /\ Y1V(5) = 1

\* A mesh over a field of a single cell: every index is 0.
C27_SingleCellReached ==
    /\ vertexElevation # <<>>
    /\ terrain.width = 1 /\ terrain.height = 1 /\ subdivisions >= 2
    /\ \A v \in Vertices : X0V(v) = 0 /\ X1V(v) = 0 /\ Y0V(v) = 0 /\ Y1V(v) = 0

\* ---- the deepening passes (SpecWater)

\* What cell i finds in cell j when the scan of this pass visits i: the
\* value the pass leaves in j if j comes before i in row-major order, the
\* value from before the pass otherwise.
LiveValue(i, j) == IF j < i THEN elevations'[j] ELSE elevations[j]

\* C22: a deepening pass leaves a cell at its value less `step` if the cell
\* is water and none of the in-grid cells among the 8 around it holds, at
\* the time of the visit, a strictly greater value; it leaves every other
\* cell as it was.  So each water cell goes down once or not at all, and the
\* cells outside the grid hold no cell back.
C22_DeepeningStepRule ==
    [][(wpc = "deepen" /\ pass' = pass + 1) =>
          \A i \in DOMAIN elevations :
              elevations'[i] =
                  IF /\ isWater[i]
                     /\ \A j \in Neighbours(i, width, height) :
                           ~(LiveValue(i, j) > elevations[i])
                  THEN elevations[i] - step
                  ELSE elevations[i]]_vars

\* Two passes have run: a water cell with no land around it went down in the
\* first and was held in the second by a water cell that stayed higher, and
\* another went down in both, a corner or edge cell among them.
C22_Witness ==
    /\ wpc = "deepen" /\ pass = 2
    /\ \E i \in DOMAIN input :
          /\ Water(i) /\ ~LandNextTo(i) /\ elevations[i] = -step
          /\ \E j \in Neighbours(i, width, height) : Water(j) /\ elevations[j] = 0
    /\ \E i \in DOMAIN input :
          /\ Water(i) /\ elevations[i] = -(2 * step)
          /\ Cardinality(Neighbours(i, width, height)) < 8

\* The input has a land cell.
HasLand == \E j \in DOMAIN input : Land(j)

\* d: the Chebyshev distance from cell i to the nearest land cell.
DistToLand(i) == MinOf({ ChebDist(i, j, width) : j \in { k \in DOMAIN input : Land(k) } })

\* min(p, d - 1), and p when there is no land
StepsDown(i, p) ==
    IF ~HasLand THEN p
    ELSE IF p <= DistToLand(i) - 1 THEN p ELSE DistToLand(i) - 1

\* The number of deepening passes that have run.
PassesRun == IF wpc = "deepen" THEN pass ELSE passes

\* C23: after p deepening passes every water cell holds -step * min(p, d - 1),
\* d its Chebyshev distance to the nearest land cell, and -(p * step) when
\* the field has no land; so a water cell is never higher than one nearer
\* to land, and two water cells next to each other differ by step at most.
C23_ClosedForm ==
    (wpc = "deepen" \/ (wpc = "smooth" /\ pass = 0)) =>
        /\ \A i \in DOMAIN input :
              Water(i) => elevations[i] = -(step * StepsDown(i, PassesRun))
        /\ HasLand =>
              \A i, j \in DOMAIN input :
                  (Water(i) /\ Water(j) /\ DistToLand(i) <= DistToLand(j)) =>
                      elevations[i] >= elevations[j]
        /\ \A i \in DOMAIN input : \A j \in Neighbours(i, width, height) :
              (Water(i) /\ Water(j)) => Abs(elevations[i] - elevations[j]) <= step

\* All passes have run on a field with land: there is water at distance 1,
\* 2 and 3 from it, at 0, one step and two steps down, the farthest cell on
\* the edge of the grid.
C23_Witness ==
    /\ wpc = "smooth" /\ pass = 0 /\ passes = 2
    /\ HasLand
    /\ \E i, j, k \in DOMAIN input :
          /\ Water(i) /\ DistToLand(i) = 1 /\ elevations[i] = 0
          /\ Water(j) /\ DistToLand(j) = 2 /\ elevations[j] = -step
          /\ Water(k) /\ DistToLand(k) >= 3 /\ elevations[k] = -(2 * step)
          /\ Cardinality(Neighbours(k, width, height)) < 8

\* All passes have run on a field of water only, 3 by 3: the corners, the
\* edges and the middle are all passes * step down.
C23_AllWaterReached ==
    /\ wpc = "smooth" /\ pass = 0 /\ passes = 2
    /\ ~HasLand
    /\ width = 3 /\ height = 3
    /\ \A i \in DOMAIN input : elevations[i] = -(2 * step)

\* ---- other ways to run a deepening pass

\* The pass with every water cell judged on the values from before the pass.
SnapshotPass(elev, water, w, h, st) ==
    [i \in DOMAIN elev |->
        IF water[i] /\ AllSameOrLower(elev, i, w, h) THEN elev[i] - st ELSE elev[i]]

\* The pass with the cells visited in the order ord[1], ord[2], ..
RECURSIVE DeepenInOrder(_, _, _, _, _, _, _)
DeepenInOrder(elev, water, ord, k, w, h, st) ==
    IF k > Len(ord) THEN elev
    ELSE DeepenInOrder(DeepenCell(elev, water, ord[k], w, h, st), water, ord, k + 1, w, h, st)

\* Orders of the cells of a w by h grid: last cell first, and column by column.
ReverseOrder(w, h) == [k \in 1 .. w * h |-> w * h - k]
ColumnOrder(w, h) == [k \in 1 .. w * h |-> ((k - 1) % h) * w + ((k - 1) \div h)]

\* Every order of the cells.
AllOrders(w, h) ==
    { f \in [1 .. w * h -> Cells(w, h)] : \A a, b \in 1 .. w * h : f[a] = f[b] => a = b }

\* C24: whenever a deepening pass is about to run, the in-place row-major
\* scan leaves the field that the pass on a snapshot of the values leaves,
\* and the field that the in-place scan in reverse order, column by column
\* and, on fields of up to MaxOrderCells cells, in any order leaves.  As the
\* passes agree one by one from the masked field on, so do the fields after
\* each complete pass.
C24_OrderInsensitive ==
    (wpc = "deepen" /\ pass < passes) =>
        LET raster == DeepenPass(elevations, isWater, width, height, step)
        IN  /\ raster = SnapshotPass(elevations, isWater, width, height, step)
            /\ raster = DeepenInOrder(elevations, isWater, ReverseOrder(width, height), 1,
                                      width, height, step)
            /\ raster = DeepenInOrder(elevations, isWater, ColumnOrder(width, height), 1,
                                      width, height, step)
            /\ width * height <= MaxOrderCells =>
                  \A ord \in AllOrders(width, height) :
                      raster = DeepenInOrder(elevations, isWater, ord, 1, width, height, step)

\* The second pass is about to run on a field where it lowers one water
\* cell and holds another that comes later in the row-major scan and lies
\* next to it: a scan in which the held cell could see the lowered one.
C24_Witness ==
    /\ wpc = "deepen" /\ pass = 1 /\ pass < passes
    /\ \E i \in DOMAIN input : \E j \in Neighbours(i, width, height) :
          /\ i < j
          /\ Water(i) /\ Water(j)
          /\ DeepenPass(elevations, isWater, width, height, step)[i] = elevations[i] - step
          /\ DeepenPass(elevations, isWater, width, height, step)[j] = elevations[j]
          /\ elevations[j] < 0

\* The same on a field small enough for every order to be tried.
C24_AllOrdersReached ==
    /\ wpc = "deepen" /\ pass = 1 /\ pass < passes
    /\ width * height = MaxOrderCells
    /\ \E i, j \in DOMAIN input :
          /\ Water(i) /\ Water(j)
          /\ DeepenPass(elevations, isWater, width, height, step)[i] = elevations[i] - step
          /\ DeepenPass(elevations, isWater, width, height, step)[j] = elevations[j]

\* ---- the smoothing passes (SpecWater)

\* Cell i and the in-grid cells among the 8 around it.
Window(i) == {i} \cup Neighbours(i, width, height)

RECURSIVE SumOf(_, _)
SumOf(f, S) ==
    IF S = {} THEN 0
    ELSE LET j == CHOOSE k \in S : TRUE IN f[j] + SumOf(f, S \ {j})

\* Cell i lies in a corner, on an edge, inside the grid.
OnBorderX(i) == XOf(i, width) = 0 \/ XOf(i, width) = width - 1
OnBorderY(i) == YOf(i, width) = 0 \/ YOf(i, width) = height - 1
Corner(i) == OnBorderX(i) /\ OnBorderY(i)
Interior(i) == ~OnBorderX(i) /\ ~OnBorderY(i)

\* A smoothing pass puts in every water cell the mean, as Float32 stores it,
\* of the values that the cell and its in-grid neighbours held before the
\* pass, land among them, and leaves land as it was.
SmoothingRule ==
    [][(wpc = "smooth" /\ pass' = pass + 1) =>
          \A i \in DOMAIN elevations :
              elevations'[i] =
                  IF isWater[i]
                  THEN RoundDiv(SumOf(elevations, Window(i)), Cardinality(Window(i)))
                  ELSE elevations[i]]_vars

\* smoothPasses passes are run, no more and no fewer.
SmoothingCount ==
    /\ wpc = "smooth" => pass <= smoothPasses
    /\ wpc = "done" => pass = smoothPasses

\* C25 as stated: the rule, the number of passes, and 4, 6 or 9 values in
\* the mean of a corner, an edge and an interior cell.
C25_SmoothingMean ==
    /\ SmoothingRule
    /\ []SmoothingCount
    /\ [](wpc = "smooth" =>
            \A i \in DOMAIN elevations :
                Cardinality(Window(i)) =
                    IF Corner(i) THEN 4 ELSE IF Interior(i) THEN 9 ELSE 6)

\* C25 as amended: the rule and the number of passes; the mean is over the
\* cells of the 3 by 3 window that lie in the grid, which are 4, 6 or 9 for
\* a corner, an edge and an interior cell when the grid is at least 2 wide
\* and 2 high, and fewer (1, 2 or 3) on a grid 1 wide or 1 high.
C25_SmoothingMeanInGrid ==
    /\ SmoothingRule
    /\ []SmoothingCount
    /\ [](wpc = "smooth" =>
            \A i \in DOMAIN elevations :
                /\ (width >= 2 /\ height >= 2) =>
                      Cardinality(Window(i)) =
                          IF Corner(i) THEN 4 ELSE IF Interior(i) THEN 9 ELSE 6
                /\ (width = 1 \/ height = 1) => Cardinality(Window(i)) \in 1 .. 3)

\* All smoothing passes have run on a 3 by 3 field with land in which a
\* corner, an edge and the interior cell are water: the interior cell has
\* come to differ from both, and some water cell has been lifted above 0.
C25_Witness ==
    /\ wpc = "done" /\ pass = smoothPasses
    /\ width = 3 /\ height = 3
    /\ HasLand
    /\ \E c, e, m \in DOMAIN input :
          /\ Corner(c) /\ Interior(m) /\ ~Corner(e) /\ ~Interior(e)
          /\ Water(c) /\ Water(e) /\ Water(m)
          /\ elevations[m] # elevations[c] /\ elevations[m] # elevations[e]
    /\ \E i \in DOMAIN input : Water(i) /\ elevations[i] > 0

\* A smoothing pass has run on a strip 1 cell high with water at its end.
C25_StripReached ==
    /\ wpc = "smooth" /\ pass >= 1
    /\ height = 1 /\ width >= 3
    /\ Water(0) /\ Land(1)
    /\ elevations[0] = RoundDiv(input[1], 2)

\* ---- masking (SpecWater)

RECURSIVE DeepenTimes(_, _, _, _, _, _)
DeepenTimes(elev, water, k, w, h, st) ==
    IF k = 0 THEN elev
    ELSE DeepenTimes(DeepenPass(elev, water, w, h, st), water, k - 1, w, h, st)

RECURSIVE SmoothTimes(_, _, _, _, _)
SmoothTimes(elev, water, k, w, h) ==
    IF k = 0 THEN elev
    ELSE SmoothTimes(SmoothPass(elev, water, w, h), water, k - 1, w, h)

\* What applyWaterDepth leaves of the field f: masking, p deepening passes,
\* smoothPasses smoothing passes.
WaterDepthOf(f, w, h, p, st) ==
    SmoothTimes(DeepenTimes(MaskReset(f), MaskOf(f), p, w, h, st), MaskOf(f), smoothPasses, w, h)

\* The input with every water cell at sea level, and with water cell i at
\* -(i + 1) m: two fields with the mask and the land values of the input.
AtSeaLevel(f) == [i \in DOMAIN f |-> IF f[i] <= 0 THEN 0 ELSE f[i]]
Sunk(f) == [i \in DOMAIN f |-> IF f[i] <= 0 THEN -((i + 1) * Scale) ELSE f[i]]

\* C26: right after masking every cell whose input is 0 or negative holds 0
\* and every other cell its input; and the field applyWaterDepth ends with
\* is the one it ends with on any input with the same water cells and the
\* same land values, however deep that input's water.
C26_MaskingResets ==
    /\ (wpc = "deepen" /\ pass = 0) =>
          \A i \in DOMAIN input :
              elevations[i] = IF input[i] <= 0 THEN 0 ELSE input[i]
    /\ wpc = "done" =>
          /\ elevations = WaterDepthOf(AtSeaLevel(input), width, height, passes, step)
          /\ elevations = WaterDepthOf(Sunk(input), width, height, passes, step)

\* applyWaterDepth has completed with deepening passes on an input with
\* land, a water cell at 0 and a water cell 2 m down, each of the two water
\* cells away from its input value.
C26_Witness ==
    /\ wpc = "done" /\ passes > 0
    /\ HasLand
    /\ \E i, j \in DOMAIN input :
          /\ input[i] = 0 /\ elevations[i] # 0
          /\ input[j] = -(2 * Scale) /\ elevations[j] # input[j]
    /\ Sunk(input) # input /\ AtSeaLevel(input) # input

\* Masking has just run on an input with a cell 2 m down.
C26_MaskedReached ==
    /\ wpc = "deepen" /\ pass = 0
    /\ \E j \in DOMAIN input : input[j] = -(2 * Scale) /\ elevations[j] = 0

\* ---- the order the four images load in (SpecOrder)

\* The elevation the store holds for pixel (col, row) of tile (x, y).
StoredElevation(x, y, row, col) ==
    DecodeTile(Image("ramp", x, y, tileDim, tileDim)).elevations[row * tileDim + col]

\* The stitched field as the layout has it: cell (X, Y) is pixel
\* (X mod T, Y mod T) of the tile (startX + X div T, startY + Y div T), so
\* (startX, startY) is top-left, (startX+1, startY) top-right,
\* (startX, startY+1) bottom-left and (startX+1, startY+1) bottom-right.
LaidOut ==
    [k \in 0 .. (4 * tileDim * tileDim - 1) |->
        StoredElevation(startX + ((k % (2 * tileDim)) \div tileDim),
                        startY + ((k \div (2 * tileDim)) \div tileDim),
                        (k \div (2 * tileDim)) % tileDim,
                        (k % (2 * tileDim)) % tileDim)]

\* C28: whatever order the four images load in, the stitched field is the
\* layout by tile coordinates, and the TerrainResult returned is the one of
\* that field.
C28_OrderIndependent ==
    /\ fpc \in {"stitched", "process", "done"} => Len(loadOrder) = 4
    /\ fpc = "stitched" => stitched = LaidOut
    /\ fpc = "done" =>
          outcome[Len(outcome)] =
              [kind |-> "result",
               result |-> TerrainResult(LaidOut, 2 * tileDim, 2 * tileDim, <<zoom, tileX, tileY>>)]

\* A result has been returned after the images loaded bottom-right first
\* and top-left last, for tiles of more than one pixel.
C28_Witness ==
    /\ fpc = "done"
    /\ loadOrder = <<3, 2, 1, 0>>
    /\ tileDim >= 2
    /\ outcome[Len(outcome)].kind = "result"
    /\ outcome[Len(outcome)].result.elevations = LaidOut
    /\ \A a, b \in DOMAIN LaidOut : a # b => LaidOut[a] # LaidOut[b]

\* The same with the images loaded in another order.
C28_OtherOrderReached ==
    /\ fpc = "done"
    /\ loadOrder = <<1, 3, 0, 2>>
    /\ outcome[Len(outcome)].result.elevations = LaidOut

\* ---- start-up (SpecBoot)

\* Event e is in the log, and event a is in the log before event b.
Logged(e) == \E k \in 1 .. Len(bootLog) : bootLog[k] = e
LoggedBefore(a, b) ==
    \E j, k \in 1 .. Len(bootLog) : j < k /\ bootLog[j] = a /\ bootLog[k] = b

\* The terrain fetch has failed: a tile did not load.
FetchFailed == \E i \in Slots : loads[i].st = "failed"

\* C29: the render loop is started only after initialize has fulfilled, which
\* it does only after the terrain fetch has returned a result, and only
\* after the loading screen, if there is one, has been hidden; the loading
\* screen is hidden only after initialize has fulfilled; once a tile load
\* has failed the render loop is not started and the loading screen is not
\* hidden, and the failure initialize rejects with gets logged.
C29_StartupOrder ==
    /\ [](/\ Logged("run") =>
                /\ LoggedBefore("initialized", "run")
                /\ dom.loading => LoggedBefore("hide", "run")
                /\ fpc = "done" /\ outcome[Len(outcome)].kind = "result"
                /\ ~Logged("error")
          /\ Logged("hide") => LoggedBefore("initialized", "hide")
          /\ Logged("initialized") => (fpc = "done" /\ ~FetchFailed)
          /\ FetchFailed => (~Logged("run") /\ ~Logged("hide"))
          /\ Logged("error") => (fpc = "failed" /\ ~Logged("run")))
    /\ (FetchFailed ~> Logged("error"))

\* The page with a loading screen has started: the fetch returned, the
\* loading screen was hidden and the render loop runs.
C29_Witness ==
    /\ dom.canvas /\ dom.loading
    /\ bootLog = <<"initialize", "initialized", "hide", "run">>
    /\ fpc = "done"

\* A tile load failed after another had loaded: the error is logged and
\* nothing else has happened.
C29_FailureReached ==
    /\ bootLog = <<"initialize", "rejected", "error">>
    /\ \E i, j \in Slots : loads[i].st = "failed" /\ loads[j].st = "loaded"

\* ---- requests in flight at once (SpecConcurrent)

\* The stitch, the synthesis or the scan of invocation r is under way.
InSyncStage(r) == cpc[r] \in {"stitch", "synthesis", "scan"}

\* C21: every buffer is read and written by the invocation that allocated it
\* only, the buffers of an invocation are its own and distinct, and while the
\* stitch, the synthesis and the scan of one invocation run, no step of
\* another invocation is taken: nothing of any other invocation changes.
C21_ExclusiveBuffers ==
    /\ [](/\ \A a \in access : owner[a[1]] = a[2]
          /\ \A r \in Requests :
                /\ cstitched[r] # 0 => owner[cstitched[r]] = r
                /\ \A i \in Slots : cbuf[r][i] # 0 => owner[cbuf[r][i]] = r
          /\ \A r, q \in Requests : (InSyncStage(r) /\ InSyncStage(q)) => r = q)
    /\ [][\A r \in Requests :
            InSyncStage(r) =>
                \A q \in Requests \ {r} :
                    /\ cpc'[q] = cpc[q] /\ cst'[q] = cst[q]
                    /\ cbuf'[q] = cbuf[q] /\ cstitched'[q] = cstitched[q]]_vars

\* Two invocations have interleaved at their tile loads: a load of the
\* second came in between two loads of the first, the first has stitched
\* and is in its synthesis, and the second is still waiting for a load.
C21_Witness ==
    /\ cpc[1] = "synthesis"
    /\ cpc[2] = "await"
    /\ \E i \in Slots : cst[2][i] = "pending"
    /\ \E i, j, k \in Slots :
          /\ cbuf[2][j] # 0
          /\ cbuf[1][i] < cbuf[2][j] /\ cbuf[2][j] < cbuf[1][k]
    /\ <<cstitched[1], 1>> \in access

====
